---- MODULE Spec2Model ----
(***************************************************************************)
(* Model of the Mosaic server: the per-connection protocol engine          *)
(* (src/src/handler.rs), the submission validator (src/src/validation.rs), *)
(* the record store (src/src/store.rs and the in-memory store of the       *)
(* handler tests) and the connection driver (src/src/lib.rs).              *)
(***************************************************************************)
EXTENDS Integers, Sequences, FiniteSets, TLC

\* ------------------------------------------------------------------ bounds
NumConns == 1
MaxMsgs == 3
NumRecords == 1
MaxApps == 2
MaxRefs == 1
NumThreads == 2
MaxCalls == 3
NumStored == 2
MaxGetRefs == 2
MaxValidations == 2
MaxTriggers == 2
MaxSpawned == 2
NumWaiters == 2
MaxAcceptErrors == 1
NumPeers == 2
MaxPeerMsgs == 2
MaxPuts == 3
MaxDrops == 1

\* ------------------------------------------------------- program constants
SUPPORTED_MAJOR_VERSION == 0

\* Option<T>: None is the empty sequence, Some(x) the one-element sequence.
None == <<>>
Some(x) == <<x>>
IsSome(o) == Len(o) = 1
IsNone(o) == Len(o) = 0
Unwrap(o) == o[1]

Conns == 1..NumConns
QueryIds == {1, 2}

\* ------------------------------------------------------------ record bytes
\* The bytes that follow the 8-byte header of a Submission.  "record" bytes
\* hold a well-formed, correctly signed record; "corrupt" bytes fail the
\* record library's structural or cryptographic check; "toolong" bytes
\* announce a length above the record size bound.
RecordShapes == {"record", "corrupt", "toolong"}
RecordBytes == [shape : RecordShapes, n : 1..NumRecords]
ValidRecords == {b \in RecordBytes : b.shape = "record"}

\* Id of a record: 48 bytes, here a pair (32-byte prefix, 16-byte tail)
\* derived from the record's content.
RecordId(record) == [kind |-> "Id", bytes |-> <<record.n, record.n + NumRecords>>]

\* Id::as_bytes()[..32]
IdPrefix(id) == id.bytes[1]

\* Id::to_reference(): the same 48 bytes seen as a Reference.
ToReference(id) == [kind |-> "Reference", bytes |-> id.bytes]

\* A reference that is the Id of no record (48 zero bytes in the tests).
UnknownReference == [kind |-> "Reference", bytes |-> <<0, 0>>]
References == {ToReference(RecordId(r)) : r \in ValidRecords} \cup {UnknownReference}

\* Record::from_bytes / OwnedRecord::from_vec of the record library: both
\* parse and verify the bytes, and fail on the same inputs.
RecordFromBytes(bytes) ==
    CASE bytes.shape = "record" -> [ok |-> TRUE, record |-> bytes, err |-> "none"]
      [] bytes.shape = "toolong" -> [ok |-> FALSE, record |-> bytes, err |-> "RecordTooLong"]
      [] OTHER -> [ok |-> FALSE, record |-> bytes, err |-> "Other"]

\* ---------------------------------------------------------------- messages
AppIds == {0, 1}
AppSeqs == UNION {[1..k -> AppIds] : k \in 0..MaxApps}
RefSeqs == UNION {[1..k -> References] : k \in 0..MaxRefs}

\* HELLO frames.  len is the frame length of the header; a frame built by
\* Message::new_hello has len = 8 + 4 * (number of application ids).
HelloLen(apps) == 8 + 4 * Len(apps)
WellFormedHellos ==
    {[type |-> "Hello", major |-> Some(0), len |-> HelloLen(a), apps |-> Some(a)] :
        a \in AppSeqs}
    \cup {[type |-> "Hello", major |-> Some(1), len |-> HelloLen(<<0>>), apps |-> Some(<<0>>)]}
MalformedHellos ==
    {[type |-> "Hello", major |-> None, len |-> 8, apps |-> Some(<<>>)],
     [type |-> "Hello", major |-> Some(0), len |-> 9, apps |-> Some(<<0>>)],
     [type |-> "Hello", major |-> Some(0), len |-> 4, apps |-> Some(<<>>)],
     [type |-> "Hello", major |-> Some(0), len |-> 12, apps |-> None]}
HelloMsgs == WellFormedHellos \cup MalformedHellos

GetMsgs ==
    {[type |-> "Get", query_id |-> q, references |-> r] :
        q \in {None} \cup {Some(i) : i \in QueryIds},
        r \in {None} \cup {Some(s) : s \in RefSeqs}}

SubmissionMsgs == {[type |-> "Submission", body |-> b] : b \in RecordBytes}

ReservedMsgs == {[type |-> t] : t \in {"Query", "Subscribe", "Unsubscribe"}}
OtherMsgs == {[type |-> t] : t \in {"Unrecognized", "HelloAck"}}

Messages == HelloMsgs \cup GetMsgs \cup SubmissionMsgs \cup ReservedMsgs \cup OtherMsgs

\* Replies built by the handler and the driver.
NewHelloAck(result, major, apps) ==
    [type |-> "HelloAck", result |-> result, major |-> major, apps |-> apps]
\* SubmissionResult that echoes the last 16 bytes of the Id, not the first 32.
NewSubmissionResultTail(id, result) ==
    [type |-> "SubmissionResult", id_prefix |-> id.bytes[2], result |-> result]
NewSubmissionResult(id, result) ==
    [type |-> "SubmissionResult", id_prefix |-> IdPrefix(id), result |-> result]
NewClosing(result) == [type |-> "Closing", result |-> result]
\* A reply to unknown messages that is a Closing frame.
NewUnrecognizedAsClosing == [type |-> "Closing", result |-> "Invalid"]
NewUnrecognized == [type |-> "Unrecognized"]
NewRecord(query_id, record) == [type |-> "Record", query_id |-> query_id, record |-> record]
NewQueryClosed(query_id, result) ==
    [type |-> "QueryClosed", query_id |-> query_id, result |-> result]

\* ------------------------------------------------------------------- state
VARIABLES
    store,        \* the shared record store: Id bytes -> record bytes
    conn,         \* per connection: driver status, close code, close reason
    client_data,  \* per connection: ClientData of the driver task
    stream,       \* frames sent on the stream served last (of connection ev.conn)
    handled,      \* number of messages dispatched to the handler so far
    accepted,     \* per open connection: records answered with Accepted
    ev,           \* the last handler call: message, session before and after,
                  \* reply, store result, log entries, whether the reply and the
                  \* Closing frame were sent, the result of handle_get or of
                  \* validate_submission called on its own
    thr,          \* store threads: position inside put_record
    slots,        \* the in-memory store of the concurrent put_record calls
    lock,         \* holder of the in-memory store's mutex (0: free)
    task,         \* per connection: the driver task step by step (position,
                  \* streams served, entries it logged)
    server,       \* the Server: shutdown cells, position of run(), transport,
                  \* callers of trigger_shut_down and wait_for_shut_down
    peers         \* the connection tasks spawned by run() that share the
                  \* store: each task's ClientData, position and frames sent

vars == <<store, conn, client_data, stream, handled, accepted, ev, thr, slots, lock,
          task, server, peers>>
connVars == <<store, conn, client_data, stream, handled, accepted, ev>>
putVars == <<thr, slots, lock>>

\* ------------------------------------------------------------------- store
\* What the storage engine does with one call: "ok", or a native failure.
BackendOutcomes == {"ok", "Io"}

\* An engine that gives no duplicate signal: a record already present is
\* written again.
StoreRecordOverwrites(s, record, backend) ==
    IF backend # "ok"
    THEN [ok |-> FALSE, err |-> backend, store |-> s]
    ELSE [ok |-> TRUE, err |-> "none",
          store |-> [k \in DOMAIN s \cup {RecordId(record).bytes} |->
                        IF k = RecordId(record).bytes THEN record ELSE s[k]]]

\* The engine's store_record: a failure of its own, the native duplicate
\* signal when the Id is already present, or the insertion.
StoreRecord(s, record, backend) ==
    IF backend # "ok"
    THEN [ok |-> FALSE, err |-> backend, store |-> s]
    ELSE IF RecordId(record).bytes \in DOMAIN s
    THEN [ok |-> FALSE, err |-> "Duplicate", store |-> s]
    ELSE [ok |-> TRUE, err |-> "none",
          store |-> [k \in DOMAIN s \cup {RecordId(record).bytes} |->
                        IF k \in DOMAIN s THEN s[k] ELSE record]]

\* put_record that squashes the engine's duplicate signal into Inserted.
PutRecordDuplicateAsInserted(s, record, backend) ==
    LET r == StoreRecord(s, record, backend) IN
    IF r.ok \/ r.err = "Duplicate" THEN [result |-> "Inserted", store |-> r.store]
    ELSE [result |-> "Err", store |-> r.store]

\* put_record that answers every failure of the engine with Duplicate.
PutRecordSquashesErrors(s, record, backend) ==
    LET r == StoreRecord(s, record, backend) IN
    IF r.ok THEN [result |-> "Inserted", store |-> r.store]
    ELSE [result |-> "Duplicate", store |-> r.store]

\* Store::put_record of the adapter.
PutRecord(s, record, backend) ==
    LET r == StoreRecord(s, record, backend) IN
    IF r.ok THEN [result |-> "Inserted", store |-> r.store]
    ELSE IF r.err = "Duplicate" THEN [result |-> "Duplicate", store |-> r.store]
    ELSE [result |-> "Err", store |-> r.store]

\* The failures of the engine other than its duplicate signal.
EngineErrors ==
    {"General", "Io", "Lmdb", "BufferTooSmall", "EndOfInput", "FilterTooWide", "MosaicCore"}

\* map_store_error: every engine failure becomes InnerError::General with a
\* message that names it.
MapStoreError(inner) ==
    [inner |-> "General",
     message |-> CASE inner = "General" -> "msg"
                   [] inner = "Io" -> "lmdb io error: err"
                   [] inner = "Lmdb" -> "lmdb backend error: err"
                   [] inner = "BufferTooSmall" -> "lmdb store buffer too small"
                   [] inner = "EndOfInput" -> "lmdb store unexpected end of input"
                   [] inner = "FilterTooWide" -> "lmdb store filter too wide"
                   [] inner = "MosaicCore" -> "lmdb core error: err"
                   [] inner = "Duplicate" -> "lmdb store duplicate"]

\* Store::has_record.
HasRecord(s, reference) == reference.bytes \in DOMAIN s

\* Store::get_record: the stored bytes as an owned, verified record.
GetRecord(s, reference) ==
    IF reference.bytes \in DOMAIN s
    THEN Some(RecordFromBytes(s[reference.bytes]).record)
    ELSE None

\* ----------------------------------------------------------- session state
\* ClientData as the driver constructs it (remote address and peer key are
\* left out: no handler path reads them except to pass them to the logger).
NewClientData == [mosaic_version |-> None, applications |-> None, closing_result |-> None]

Handshaked(client) == IsSome(client.mosaic_version) /\ IsSome(client.applications)

\* --------------------------------------------------------------- validator
\* result_code that reports an incomplete handshake as GeneralError.
ResultCodeOfHandshakeAsGeneral(err) ==
    CASE err = "HandshakeNotComplete" -> "GeneralError"
      [] err = "WrongMessageType" -> "Invalid"
      [] err = "RecordTooLong" -> "TooLarge"
      [] OTHER -> "Invalid"

\* result_code that reports every invalid record as Invalid, the too long
\* ones included.
ResultCodeOfTooLongAsInvalid(err) ==
    CASE err = "HandshakeNotComplete" -> "Invalid"
      [] err = "WrongMessageType" -> "Invalid"
      [] OTHER -> "Invalid"

\* SubmissionValidationError::result_code
ResultCodeOf(err) ==
    CASE err = "HandshakeNotComplete" -> "Invalid"
      [] err = "WrongMessageType" -> "Invalid"
      [] err = "RecordTooLong" -> "TooLarge"
      [] OTHER -> "Invalid"

\* validate_submission without its handshake check.
ValidateSubmissionNoHandshake(message, client) ==
    IF message.type # "Submission"
    THEN [ok |-> FALSE, record |-> None, err |-> "WrongMessageType"]
    ELSE LET p == RecordFromBytes(message.body) IN
         IF p.ok THEN [ok |-> TRUE, record |-> Some(p.record), err |-> "none"]
         ELSE [ok |-> FALSE, record |-> None, err |-> p.err]

\* validate_submission that takes a session for handshaked only when an
\* application was accepted.
ValidateSubmissionRequiresApp(message, client) ==
    IF message.type # "Submission"
    THEN [ok |-> FALSE, record |-> None, err |-> "WrongMessageType"]
    ELSE IF IsNone(client.mosaic_version) \/ IsNone(client.applications)
            \/ client.applications = Some(<<>>)
    THEN [ok |-> FALSE, record |-> None, err |-> "HandshakeNotComplete"]
    ELSE LET p == RecordFromBytes(message.body) IN
         IF p.ok THEN [ok |-> TRUE, record |-> Some(p.record), err |-> "none"]
         ELSE [ok |-> FALSE, record |-> None, err |-> p.err]

\* validate_submission that refuses a record the store already holds: its
\* result follows the store.
ValidateSubmissionConsultsStore(message, client) ==
    IF message.type # "Submission"
    THEN [ok |-> FALSE, record |-> None, err |-> "WrongMessageType"]
    ELSE IF IsNone(client.mosaic_version) \/ IsNone(client.applications)
    THEN [ok |-> FALSE, record |-> None, err |-> "HandshakeNotComplete"]
    ELSE LET p == RecordFromBytes(message.body) IN
         IF p.ok /\ RecordId(p.record).bytes \notin DOMAIN store
         THEN [ok |-> TRUE, record |-> Some(p.record), err |-> "none"]
         ELSE [ok |-> FALSE, record |-> None, err |-> IF p.ok THEN "Other" ELSE p.err]

\* validate_submission: [ok, record, err]; err names the validation error
\* (for RecordInvalid, its cause).
ValidateSubmission(message, client) ==
    IF message.type # "Submission"
    THEN [ok |-> FALSE, record |-> None, err |-> "WrongMessageType"]
    ELSE IF IsNone(client.mosaic_version) \/ IsNone(client.applications)
    THEN [ok |-> FALSE, record |-> None, err |-> "HandshakeNotComplete"]
    ELSE LET p == RecordFromBytes(message.body) IN
         IF p.ok THEN [ok |-> TRUE, record |-> Some(p.record), err |-> "none"]
         ELSE [ok |-> FALSE, record |-> None, err |-> p.err]

\* ----------------------------------------------------------------- handler
\* extract_record_id
ExtractRecordId(message) ==
    IF message.type # "Submission" THEN None
    ELSE LET p == RecordFromBytes(message.body) IN
         IF p.ok THEN Some(RecordId(p.record)) ELSE None

\* The three ways handle_hello leaves: silently, with HelloAck(Invalid) and
\* a staged closing code, or with HelloAck(Success) and the session set.
HelloInvalidNoClosing(client) ==
    [reply |-> Some(NewHelloAck("Invalid", SUPPORTED_MAJOR_VERSION, <<>>)),
     client |-> client]

\* A failure path that records the supported version next to the closing
\* code.
HelloInvalidRecordsVersion(client) ==
    [reply |-> Some(NewHelloAck("Invalid", SUPPORTED_MAJOR_VERSION, <<>>)),
     client |-> [client EXCEPT !.mosaic_version = Some(SUPPORTED_MAJOR_VERSION),
                               !.closing_result = Some("Invalid")]]

HelloInvalid(client) ==
    [reply |-> Some(NewHelloAck("Invalid", SUPPORTED_MAJOR_VERSION, <<>>)),
     client |-> [client EXCEPT !.closing_result = Some("Invalid")]]

IsZeroApp(app) == app = 0

\* handle_hello without the check for a completed handshake: a later HELLO
\* negotiates again.
HandleHelloRenegotiates(message, client) ==
    IF IsNone(message.major) THEN HelloInvalid(client)
    ELSE IF Unwrap(message.major) # SUPPORTED_MAJOR_VERSION THEN HelloInvalid(client)
    ELSE IF message.len < 8 \/ (message.len - 8) % 4 # 0 THEN HelloInvalid(client)
    ELSE IF IsNone(message.apps) THEN HelloInvalid(client)
    ELSE LET accepted_apps == SelectSeq(Unwrap(message.apps), IsZeroApp) IN
         [reply |-> Some(NewHelloAck("Success", SUPPORTED_MAJOR_VERSION, accepted_apps)),
          client |-> [mosaic_version |-> Some(SUPPORTED_MAJOR_VERSION),
                      applications |-> Some(accepted_apps),
                      closing_result |-> None]]

\* handle_hello that keeps the requested application ids in the session
\* while acknowledging the accepted ones.
HandleHelloStoresRequested(message, client) ==
    IF IsSome(client.mosaic_version) THEN [reply |-> None, client |-> client]
    ELSE IF IsNone(message.major) THEN HelloInvalid(client)
    ELSE IF Unwrap(message.major) # SUPPORTED_MAJOR_VERSION THEN HelloInvalid(client)
    ELSE IF message.len < 8 \/ (message.len - 8) % 4 # 0 THEN HelloInvalid(client)
    ELSE IF IsNone(message.apps) THEN HelloInvalid(client)
    ELSE LET accepted_apps == SelectSeq(Unwrap(message.apps), IsZeroApp) IN
         [reply |-> Some(NewHelloAck("Success", SUPPORTED_MAJOR_VERSION, accepted_apps)),
          client |-> [mosaic_version |-> Some(SUPPORTED_MAJOR_VERSION),
                      applications |-> message.apps,
                      closing_result |-> None]]

\* handle_hello that refuses a handshake in which no application is accepted.
HandleHelloRequiresApp(message, client) ==
    IF IsSome(client.mosaic_version) THEN [reply |-> None, client |-> client]
    ELSE IF IsNone(message.major) THEN HelloInvalid(client)
    ELSE IF Unwrap(message.major) # SUPPORTED_MAJOR_VERSION THEN HelloInvalid(client)
    ELSE IF message.len < 8 \/ (message.len - 8) % 4 # 0 THEN HelloInvalid(client)
    ELSE IF IsNone(message.apps) THEN HelloInvalid(client)
    ELSE LET accepted_apps == SelectSeq(Unwrap(message.apps), IsZeroApp) IN
         IF accepted_apps = <<>> THEN HelloInvalid(client)
         ELSE [reply |-> Some(NewHelloAck("Success", SUPPORTED_MAJOR_VERSION, accepted_apps)),
               client |-> [mosaic_version |-> Some(SUPPORTED_MAJOR_VERSION),
                           applications |-> Some(accepted_apps),
                           closing_result |-> None]]

\* handle_hello
HandleHello(message, client) ==
    IF IsSome(client.mosaic_version) THEN [reply |-> None, client |-> client]
    ELSE IF IsNone(message.major) THEN HelloInvalid(client)
    ELSE IF Unwrap(message.major) # SUPPORTED_MAJOR_VERSION THEN HelloInvalid(client)
    ELSE IF message.len < 8 \/ (message.len - 8) % 4 # 0 THEN HelloInvalid(client)
    ELSE IF IsNone(message.apps) THEN HelloInvalid(client)
    ELSE LET accepted_apps == SelectSeq(Unwrap(message.apps), IsZeroApp) IN
         [reply |-> Some(NewHelloAck("Success", SUPPORTED_MAJOR_VERSION, accepted_apps)),
          client |-> [mosaic_version |-> Some(SUPPORTED_MAJOR_VERSION),
                      applications |-> Some(accepted_apps),
                      closing_result |-> None]]

\* A rejection path that stages the result code as a closing code whenever
\* it answers with a SubmissionResult.
SubmissionRejectedStagesClosing(message, client, s, err) ==
    LET record_id == ExtractRecordId(message) IN
    IF IsSome(record_id)
    THEN [reply |-> NewSubmissionResult(Unwrap(record_id), ResultCodeOf(err)),
          client |-> [client EXCEPT !.closing_result = Some(ResultCodeOf(err))],
          store |-> s, put |-> "none", logs |-> 1]
    ELSE [reply |-> NewClosing("Invalid"),
          client |-> client, store |-> s, put |-> "none", logs |-> 2]

\* A rejection path that keeps the record it could read although it
\* answers with the validation error.
SubmissionRejectedStores(message, client, s, err) ==
    LET record_id == ExtractRecordId(message) IN
    IF IsSome(record_id)
    THEN [reply |-> NewSubmissionResult(Unwrap(record_id), ResultCodeOf(err)),
          client |-> client,
          store |-> IF RecordFromBytes(message.body).ok
                    THEN PutRecord(s, message.body, "ok").store ELSE s,
          put |-> "none", logs |-> 1]
    ELSE [reply |-> NewClosing("Invalid"),
          client |-> client, store |-> s, put |-> "none", logs |-> 2]

\* The reply of handle_submission when validation fails: the result code
\* next to the record's Id when one can be read, Closing(Invalid) otherwise.
SubmissionRejected(message, client, s, err) ==
    LET record_id == ExtractRecordId(message) IN
    IF IsSome(record_id)
    THEN [reply |-> NewSubmissionResult(Unwrap(record_id), ResultCodeOf(err)),
          client |-> client, store |-> s, put |-> "none", logs |-> 1]
    ELSE [reply |-> NewClosing("Invalid"),
          client |-> client, store |-> s, put |-> "none", logs |-> 2]

\* handle_submission's store branch that answers Accepted whatever the
\* store returned short of an error.
SubmissionStoredAlwaysAccepted(record, client, s, backend) ==
    LET id == RecordId(record)
        p == PutRecord(s, record, backend) IN
    IF p.result \in {"Inserted", "Duplicate"}
    THEN [reply |-> NewSubmissionResult(id, "Accepted"),
          client |-> client, store |-> p.store, put |-> p.result, logs |-> 0]
    ELSE [reply |-> NewSubmissionResult(id, "GeneralError"),
          client |-> client, store |-> p.store, put |-> "Err", logs |-> 1]

\* handle_submission's store branch that treats a backend error as fatal
\* for the connection: it stages a closing code.
SubmissionStoredClosesOnError(record, client, s, backend) ==
    LET id == RecordId(record)
        p == PutRecord(s, record, backend) IN
    CASE p.result = "Inserted" ->
           [reply |-> NewSubmissionResult(id, "Accepted"),
            client |-> client, store |-> p.store, put |-> "Inserted", logs |-> 0]
      [] p.result = "Duplicate" ->
           [reply |-> NewSubmissionResult(id, "Duplicate"),
            client |-> client, store |-> p.store, put |-> "Duplicate", logs |-> 0]
      [] OTHER ->
           [reply |-> NewSubmissionResult(id, "GeneralError"),
            client |-> [client EXCEPT !.closing_result = Some("GeneralError")],
            store |-> p.store, put |-> "Err", logs |-> 1]

\* The reply of handle_submission for a validated record, after put_record.
SubmissionStored(record, client, s, backend) ==
    LET id == RecordId(record)
        p == PutRecord(s, record, backend) IN
    CASE p.result = "Inserted" ->
           [reply |-> NewSubmissionResult(id, "Accepted"),
            client |-> client, store |-> p.store, put |-> "Inserted", logs |-> 0]
      [] p.result = "Duplicate" ->
           [reply |-> NewSubmissionResult(id, "Duplicate"),
            client |-> client, store |-> p.store, put |-> "Duplicate", logs |-> 0]
      [] OTHER ->
           [reply |-> NewSubmissionResult(id, "GeneralError"),
            client |-> client, store |-> p.store, put |-> "Err", logs |-> 1]

\* handle_submission
HandleSubmission(message, client, s, backend) ==
    LET v == ValidateSubmission(message, client) IN
    IF v.ok THEN SubmissionStored(Unwrap(v.record), client, s, backend)
    ELSE SubmissionRejected(message, client, s, v.err)

\* The lookup loop of handle_get with the hits collected in reverse order.
GetFoundPrepends(s, references) ==
    LET hit(reference) == GetRecord(s, reference)
        F[i \in 0..Len(references)] ==
            IF i = 0 THEN <<>>
            ELSE IF IsSome(hit(references[i]))
                 THEN <<Unwrap(hit(references[i]))>> \o F[i - 1]
                 ELSE F[i - 1]
    IN F[Len(references)]

\* The lookup loop of handle_get: the records of the references that
\* get_record finds, in the order of the reference list.
GetFound(s, references) ==
    LET hit(reference) == GetRecord(s, reference)
        F[i \in 0..Len(references)] ==
            IF i = 0 THEN <<>>
            ELSE IF IsSome(hit(references[i]))
                 THEN Append(F[i - 1], Unwrap(hit(references[i])))
                 ELSE F[i - 1]
    IN F[Len(references)]

\* The hard error of handle_get (Err(..)): err names the error, lookups the
\* get_record calls made before it.
GetError(err, lookups) ==
    [ok |-> FALSE, query_id |-> None, records |-> <<>>, result_code |-> "none",
     err |-> err, lookups |-> lookups]

\* Ok(GetResponse { query_id, records, result_code }) after lookups calls of
\* get_record.
GetOk(query_id, records, result_code, lookups) ==
    [ok |-> TRUE, query_id |-> query_id, records |-> records,
     result_code |-> result_code, err |-> "none", lookups |-> lookups]

\* handle_get that looks the references up without asking for a handshake.
HandleGetWithoutHandshake(message, client, s, backend) ==
    IF IsNone(message.query_id) THEN GetError("General", 0)
    ELSE IF IsNone(message.references)
    THEN GetOk(message.query_id, <<>>, "Invalid", 0)
    ELSE IF backend # "ok" /\ Len(Unwrap(message.references)) > 0
    THEN GetError(backend, 1)
    ELSE LET found_records == GetFound(s, Unwrap(message.references)) IN
         GetOk(message.query_id, found_records,
               IF Len(found_records) = 0 THEN "NotFound" ELSE "Success",
               Len(Unwrap(message.references)))

\* handle_get that asks for the query id only after the lookups: a message
\* without one is answered from the store first.
HandleGetQueryIdLast(message, client, s, backend) ==
    IF IsNone(client.mosaic_version) \/ IsNone(client.applications)
    THEN GetOk(message.query_id, <<>>, "Invalid", 0)
    ELSE IF IsNone(message.references)
    THEN GetOk(message.query_id, <<>>, "Invalid", 0)
    ELSE IF backend # "ok" /\ Len(Unwrap(message.references)) > 0
    THEN GetError(backend, 1)
    ELSE IF IsNone(message.query_id)
    THEN GetError("General", Len(Unwrap(message.references)))
    ELSE LET found_records == GetFound(s, Unwrap(message.references)) IN
         GetOk(message.query_id, found_records,
               IF Len(found_records) = 0 THEN "NotFound" ELSE "Success",
               Len(Unwrap(message.references)))

\* What the backend does during the lookups of one GET: "ok", a failure of
\* the first get_record call ("Io"), or of the second ("Io@2").
GetBackendOutcomes == BackendOutcomes \cup {"Io@2"}

\* The get_record call that fails (0: none) and the error it returns.
FailingLookup(backend) ==
    CASE backend = "ok" -> 0
      [] backend = "Io@2" -> 2
      [] OTHER -> 1
LookupError(backend) == IF backend = "Io@2" THEN "Io" ELSE backend

\* handle_get that answers a failing lookup with the records collected
\* before it.
HandleGetPartialOnError(message, client, s, backend) ==
    IF IsNone(message.query_id) THEN GetError("General", 0)
    ELSE IF IsNone(client.mosaic_version) \/ IsNone(client.applications)
    THEN GetOk(message.query_id, <<>>, "Invalid", 0)
    ELSE IF IsNone(message.references)
    THEN GetOk(message.query_id, <<>>, "Invalid", 0)
    ELSE LET references == Unwrap(message.references)
             k == FailingLookup(backend)
             looked == IF k \in 1..Len(references) THEN SubSeq(references, 1, k - 1)
                       ELSE references
             found_records == GetFound(s, looked)
         IN GetOk(message.query_id, found_records,
                  IF Len(found_records) = 0 THEN "NotFound" ELSE "Success",
                  Len(looked))

\* handle_get.  A get_record call that fails ends the loop: the ? operator
\* turns its error into the function's error and the records collected so
\* far are dropped with found_records.
HandleGet(message, client, s, backend) ==
    IF IsNone(message.query_id) THEN GetError("General", 0)
    ELSE IF IsNone(client.mosaic_version) \/ IsNone(client.applications)
    THEN GetOk(message.query_id, <<>>, "Invalid", 0)
    ELSE IF IsNone(message.references)
    THEN GetOk(message.query_id, <<>>, "Invalid", 0)
    ELSE IF FailingLookup(backend) \in 1..Len(Unwrap(message.references))
    THEN GetError(LookupError(backend), FailingLookup(backend))
    ELSE LET found_records == GetFound(s, Unwrap(message.references)) IN
         GetOk(message.query_id, found_records,
               IF Len(found_records) = 0 THEN "NotFound" ELSE "Success",
               Len(Unwrap(message.references)))

\* handle_mosaic_message: outcome "Reply" is Ok(Some(reply)), "Silent" is
\* Ok(None), "Panic" is the todo!() of the reserved message types.
HandleMosaicMessage(message, client, s, backend) ==
    CASE message.type = "Hello" ->
           LET h == HandleHello(message, client) IN
           [outcome |-> IF IsSome(h.reply) THEN "Reply" ELSE "Silent",
            reply |-> h.reply, client |-> h.client, store |-> s,
            put |-> "none", logs |-> 0]
      [] message.type = "Get" ->
           [outcome |-> "Silent", reply |-> None, client |-> client, store |-> s,
            put |-> "none", logs |-> 0]
      [] message.type \in {"Query", "Subscribe", "Unsubscribe"} ->
           [outcome |-> "Panic", reply |-> None, client |-> client, store |-> s,
            put |-> "none", logs |-> 0]
      [] message.type = "Submission" ->
           LET r == HandleSubmission(message, client, s, backend) IN
           [outcome |-> "Reply", reply |-> Some(r.reply), client |-> r.client,
            store |-> r.store, put |-> r.put, logs |-> r.logs]
      [] OTHER ->
           [outcome |-> "Reply", reply |-> Some(NewUnrecognized), client |-> client,
            store |-> s, put |-> "none", logs |-> 0]

\* ------------------------------------------------------------------ driver
\* ResultCode::to_u8 as the application close code; ZeroCode is the literal 0.
ZeroCode == <<"u8", "0">>
\* A conversion that maps every result code to 0.
ToU8AlwaysZero(result_code) == ZeroCode
ToU8(result_code) == <<"u8", result_code>>

NO_CHANNEL == "No QUIC channel"

NoConn == [status |-> "idle", code |-> None, reason |-> "none"]

\* No validate_submission call was made on its own.
NoValidation == [ok |-> FALSE, record |-> None, err |-> "none", code |-> "none"]

\* No handle_get call was made.
NoGet == GetError("none", 0)

NoEvent ==
    [conn |-> 0, msg |-> [type |-> "none"], before |-> NewClientData,
     after |-> NewClientData, outcome |-> "none",
     reply |-> None, put |-> "none", logs |-> 0, sent |-> FALSE,
     closing_sent |-> FALSE, get |-> NoGet, valid |-> NoValidation]

ConnInit ==
    /\ store = << >>
    /\ conn = [c \in Conns |-> NoConn]
    /\ client_data = [c \in Conns |-> NewClientData]
    /\ stream = <<>>
    /\ handled = 0
    /\ accepted = [c \in Conns |-> {}]
    /\ ev = NoEvent

\* client.accept(&*approver) succeeds: the task builds its ClientData and
\* enters the loop.
Accept(c) ==
    /\ conn[c].status = "idle"
    /\ conn' = [conn EXCEPT ![c] = [status |-> "open", code |-> None, reason |-> "none"]]
    /\ client_data' = [client_data EXCEPT ![c] = NewClientData]
    /\ UNCHANGED <<store, stream, handled, accepted, ev, putVars, task, server, peers>>

\* client.accept fails: the error is logged and the task returns.
AcceptError(c) ==
    /\ conn[c].status = "idle"
    /\ conn' = [conn EXCEPT ![c] = [status |-> "abandoned", code |-> None, reason |-> "accept"]]
    /\ UNCHANGED <<store, client_data, stream, handled, accepted, ev, putVars, task, server, peers>>

\* connection.next_channel() or channel.recv() fails: logged, task returns
\* without closing the connection.
TransportError(c) ==
    /\ conn[c].status = "open"
    /\ \E step \in {"next_channel", "recv"} :
         conn' = [conn EXCEPT ![c] = [status |-> "abandoned", code |-> None, reason |-> step]]
    /\ client_data' = [client_data EXCEPT ![c] = NewClientData]
    /\ accepted' = [accepted EXCEPT ![c] = {}]
    /\ UNCHANGED <<store, stream, handled, ev, putVars, task, server, peers>>

\* channel.recv() yields Ok(None): leave the loop, close(0, NO_CHANNEL).
RecvNone(c) ==
    /\ conn[c].status = "open"
    /\ conn' = [conn EXCEPT ![c] = [status |-> "closed", code |-> Some(ZeroCode), reason |-> NO_CHANNEL]]
    /\ client_data' = [client_data EXCEPT ![c] = NewClientData]
    /\ accepted' = [accepted EXCEPT ![c] = {}]
    /\ UNCHANGED <<store, stream, handled, ev, putVars, task, server, peers>>

\* What the loop body does with the handler's result h for connection c:
\* [conn, client, stream, sent].  send_ok / closing_ok are the outcomes of
\* the two channel.send calls.  When the task ends (return, panic) its
\* ClientData is dropped: the session is shown as NewClientData from then on.
AfterHandler(c, h, send_ok, closing_ok) ==
    CASE h.outcome = "Panic" ->
           [conn |-> [status |-> "panicked", code |-> None, reason |-> "todo"],
            client |-> NewClientData, stream |-> <<>>, sent |-> FALSE]
      [] h.outcome = "Silent" ->
           [conn |-> conn[c], client |-> h.client, stream |-> <<>>, sent |-> FALSE]
      [] h.outcome = "Reply" /\ ~send_ok ->
           [conn |-> [status |-> "abandoned", code |-> None, reason |-> "send"],
            client |-> NewClientData, stream |-> <<>>, sent |-> FALSE]
      [] h.outcome = "Reply" /\ send_ok /\ IsSome(h.client.closing_result) ->
           LET result_code == Unwrap(h.client.closing_result) IN
           [conn |-> [status |-> "closed", code |-> Some(ToU8(result_code)), reason |-> "closing"],
            client |-> NewClientData,
            stream |-> IF closing_ok THEN <<Unwrap(h.reply), NewClosing(result_code)>>
                       ELSE <<Unwrap(h.reply)>>,
            sent |-> TRUE]
      [] OTHER ->
           [conn |-> conn[c], client |-> h.client, stream |-> <<Unwrap(h.reply)>>,
            sent |-> TRUE]

\* The outcomes of the store call and of the two channel.send calls that the
\* loop body can observe for a message (a call that is not made has none).
BackendChoices(message) ==
    IF message.type = "Submission" THEN BackendOutcomes ELSE {"ok"}
SendChoices(message, client, s, backend) ==
    IF HandleMosaicMessage(message, client, s, backend).outcome = "Reply"
    THEN BOOLEAN ELSE {TRUE}
ClosingChoices(message, client, s, backend, send_ok) ==
    LET h == HandleMosaicMessage(message, client, s, backend) IN
    IF h.outcome = "Reply" /\ send_ok /\ IsSome(h.client.closing_result)
    THEN BOOLEAN ELSE {TRUE}

\* One turn of the loop with a message received: dispatch it to the handler,
\* send the reply, enforce a staged closing code.
Dispatch(c) ==
    /\ conn[c].status = "open"
    /\ handled < MaxMsgs
    /\ \E message \in Messages :
       \E backend \in BackendChoices(message) :
       \E send_ok \in SendChoices(message, client_data[c], store, backend) :
       \E closing_ok \in ClosingChoices(message, client_data[c], store, backend, send_ok) :
         LET h == HandleMosaicMessage(message, client_data[c], store, backend)
             a == AfterHandler(c, h, send_ok, closing_ok)
         IN /\ store' = h.store
            /\ conn' = [conn EXCEPT ![c] = a.conn]
            /\ client_data' = [client_data EXCEPT ![c] = a.client]
            /\ stream' = a.stream
            /\ handled' = handled + 1
            /\ accepted' = [accepted EXCEPT ![c] =
                              IF a.conn.status # "open" THEN {}
                              ELSE IF a.sent /\ h.put = "Inserted"
                              THEN @ \cup {message.body} ELSE @]
            /\ ev' = [conn |-> c, msg |-> message, before |-> client_data[c],
                      after |-> h.client, outcome |-> h.outcome, reply |-> h.reply, put |-> h.put,
                      logs |-> h.logs, sent |-> a.sent,
                      closing_sent |-> a.sent /\ closing_ok
                                          /\ IsSome(h.client.closing_result),
                      get |-> NoGet, valid |-> NoValidation]
    /\ UNCHANGED <<putVars, task, server, peers>>

\* ------------------------------------------ the driver task, step by step
\* handle_quic_client with one step per await point.  task[c].channels lists
\* the streams obtained by next_channel, each with the messages received on
\* it, the messages the handler was called with, the handler's reply and the
\* frames sent on it; task[c].log lists the entries the driver passed to the
\* Logger; task[c].closing holds the code taken out of closing_result.
NewChannel == [msgs |-> <<>>, calls |-> <<>>, reply |-> None, frames |-> <<>>]

NewTask ==
    [pc |-> "accept", channels |-> <<>>, closing |-> None, log |-> <<>>,
     peer_closed |-> FALSE]

TaskInit == task = [c \in Conns |-> NewTask]

\* The messages a peer sends on its streams: one for each way the handler
\* returns (a reply, a reply with a staged closing code, no reply, a store
\* call, a panic).
StreamMsgs ==
    {[type |-> "Hello", major |-> Some(0), len |-> HelloLen(<<0>>), apps |-> Some(<<0>>)],
     [type |-> "Hello", major |-> Some(1), len |-> HelloLen(<<0>>), apps |-> Some(<<0>>)],
     [type |-> "Get", query_id |-> Some(1), references |-> Some(<<>>)],
     [type |-> "Submission", body |-> [shape |-> "record", n |-> 1]],
     [type |-> "Query"]}

\* The failures of next_channel: the peer closed the connection (the
\* "closed by peer" entries of the smoke test's log), or any other.
NextChannelErrors == {"closed by peer", "io"}

\* A driver that obtains the next stream while the current one is served.
ReadyForNextChannelAnytime(t) == t.pc \in {"next_channel", "recv", "handle", "send"}

\* The loop is at its head: connection.next_channel().await
ReadyForNextChannel(t) == t.pc = "next_channel"

\* The current stream of a task with a field of it replaced.
WithFrames(t, frames) == [t EXCEPT !.channels[Len(t.channels)].frames = frames]

\* An error arm that returns without calling the Logger.
TaskAfterErrorSilent(t, step, cause, peer) ==
    [t EXCEPT !.pc = "returned", !.peer_closed = (cause = "closed by peer")]

\* The error arms: logger.log_client_error(e, remote_address, peer); return;
TaskAfterError(t, step, cause, peer) ==
    [t EXCEPT !.pc = "returned",
              !.log = Append(@, [step |-> step, cause |-> cause, peer |-> peer]),
              !.peer_closed = (cause = "closed by peer")]

\* client.accept(&*approver).await
TaskAccept(c) ==
    /\ task[c].pc = "accept"
    /\ conn[c].status = "idle"
    /\ \E ok \in BOOLEAN :
         IF ok
         THEN /\ conn' = [conn EXCEPT ![c] = [status |-> "open", code |-> None, reason |-> "none"]]
              /\ task' = [task EXCEPT ![c].pc = "next_channel"]
         ELSE /\ conn' = [conn EXCEPT ![c] = [status |-> "abandoned", code |-> None, reason |-> "accept"]]
              /\ task' = [task EXCEPT ![c] = TaskAfterError(@, "accept", "io", "None")]
    /\ client_data' = [client_data EXCEPT ![c] = NewClientData]
    /\ UNCHANGED <<store, stream, handled, accepted, ev, putVars, server, peers>>

\* connection.next_channel().await yields a stream the peer opened.
TaskNextChannel(c) ==
    /\ conn[c].status = "open"
    /\ ReadyForNextChannel(task[c])
    /\ handled < MaxMsgs
    /\ handled' = handled + 1
    /\ task' = [task EXCEPT ![c].pc = "recv", ![c].channels = Append(@, NewChannel)]
    /\ UNCHANGED <<store, conn, client_data, stream, accepted, ev, putVars, server, peers>>

\* connection.next_channel().await fails.
TaskNextChannelErr(c) ==
    /\ conn[c].status = "open"
    /\ task[c].pc = "next_channel"
    /\ \E cause \in NextChannelErrors :
         task' = [task EXCEPT ![c] = TaskAfterError(@, "next_channel", cause, "peer")]
    /\ conn' = [conn EXCEPT ![c] = [status |-> "abandoned", code |-> None, reason |-> "next_channel"]]
    /\ client_data' = [client_data EXCEPT ![c] = NewClientData]
    /\ UNCHANGED <<store, stream, handled, accepted, ev, putVars, server, peers>>

\* channel.recv().await yields Ok(Some(message)).
TaskRecv(c) ==
    /\ task[c].pc = "recv"
    /\ \E message \in StreamMsgs :
         task' = [task EXCEPT ![c].pc = "handle",
                              ![c].channels[Len(task[c].channels)].msgs = Append(@, message)]
    /\ UNCHANGED <<store, conn, client_data, stream, handled, accepted, ev, putVars, server, peers>>

\* channel.recv().await yields Ok(None): break, connection.close(0, NO_CHANNEL).
TaskRecvNone(c) ==
    /\ task[c].pc = "recv"
    /\ task' = [task EXCEPT ![c].pc = "returned"]
    /\ conn' = [conn EXCEPT ![c] = [status |-> "closed", code |-> Some(ZeroCode), reason |-> NO_CHANNEL]]
    /\ client_data' = [client_data EXCEPT ![c] = NewClientData]
    /\ UNCHANGED <<store, stream, handled, accepted, ev, putVars, server, peers>>

\* channel.recv().await fails.
TaskRecvErr(c) ==
    /\ task[c].pc = "recv"
    /\ task' = [task EXCEPT ![c] = TaskAfterError(@, "recv", "io", "peer")]
    /\ conn' = [conn EXCEPT ![c] = [status |-> "abandoned", code |-> None, reason |-> "recv"]]
    /\ client_data' = [client_data EXCEPT ![c] = NewClientData]
    /\ UNCHANGED <<store, stream, handled, accepted, ev, putVars, server, peers>>

\* handle_mosaic_message(message, &mut client_data).await
TaskHandle(c) ==
    /\ task[c].pc = "handle"
    /\ LET n == Len(task[c].channels)
           message == task[c].channels[n].msgs[Len(task[c].channels[n].msgs)]
       IN \E backend \in BackendChoices(message) :
            LET h == HandleMosaicMessage(message, client_data[c], store, backend) IN
            /\ store' = h.store
            /\ client_data' = [client_data EXCEPT ![c] =
                                 IF h.outcome = "Panic" THEN NewClientData ELSE h.client]
            /\ conn' = [conn EXCEPT ![c] =
                          IF h.outcome = "Panic"
                          THEN [status |-> "panicked", code |-> None, reason |-> "todo"]
                          ELSE @]
            /\ task' = [task EXCEPT
                          ![c].pc = CASE h.outcome = "Reply" -> "send"
                                      [] h.outcome = "Silent" -> "next_channel"
                                      [] OTHER -> "panicked",
                          ![c].channels[n].calls = Append(@, message),
                          ![c].channels[n].reply = h.reply]
    /\ UNCHANGED <<stream, handled, accepted, ev, putVars, server, peers>>

\* channel.send(response_message).await, then closing_result.take()
TaskSend(c) ==
    /\ task[c].pc = "send"
    /\ LET n == Len(task[c].channels)
           ch == task[c].channels[n]
       IN \E ok \in BOOLEAN :
            IF ok
            THEN /\ task' = [task EXCEPT
                               ![c] = [WithFrames(@, Append(ch.frames, Unwrap(ch.reply)))
                                         EXCEPT !.pc = IF IsSome(client_data[c].closing_result)
                                                       THEN "closing" ELSE "next_channel",
                                                !.closing = client_data[c].closing_result]]
                 /\ client_data' = [client_data EXCEPT ![c].closing_result = None]
                 /\ conn' = conn
            ELSE /\ task' = [task EXCEPT ![c] = TaskAfterError(@, "send", "io", "peer")]
                 /\ client_data' = [client_data EXCEPT ![c] = NewClientData]
                 /\ conn' = [conn EXCEPT ![c] =
                               [status |-> "abandoned", code |-> None, reason |-> "send"]]
    /\ UNCHANGED <<store, stream, handled, accepted, ev, putVars, server, peers>>

\* channel.send(closing).await (a failure is logged and ignored), then
\* connection.close(result_code.to_u8().into(), b"closing"); return;
TaskClosing(c) ==
    /\ task[c].pc = "closing"
    /\ LET n == Len(task[c].channels)
           ch == task[c].channels[n]
           result_code == Unwrap(task[c].closing)
       IN \E ok \in BOOLEAN :
            task' = [task EXCEPT
                       ![c] = IF ok
                              THEN [WithFrames(@, Append(ch.frames, NewClosing(result_code)))
                                      EXCEPT !.pc = "returned"]
                              ELSE [@ EXCEPT !.pc = "returned",
                                             !.log = Append(@, [step |-> "closing",
                                                                cause |-> "io",
                                                                peer |-> "peer"])]]
    /\ conn' = [conn EXCEPT ![c] = [status |-> "closed",
                                    code |-> Some(ToU8(Unwrap(task[c].closing))),
                                    reason |-> "closing"]]
    /\ client_data' = [client_data EXCEPT ![c] = NewClientData]
    /\ UNCHANGED <<store, stream, handled, accepted, ev, putVars, server, peers>>

\* ------------------------------------------------------- server life cycle
\* Server::run, trigger_shut_down and wait_for_shut_down.  shutting_down
\* and shutdown_complete are the two SetOnce cells; run is the position of
\* run(); transport is the shut_down call made on the QUIC server and
\* transport_done whether it has finished; spawned counts the connection
\* tasks spawned; calls lists the codes passed to trigger_shut_down;
\* waiters is the position of each caller of wait_for_shut_down; accepts
\* lists the results of quic_server.accept() in order, "spawned" for a client
\* whose task was spawned and "error" for an error printed to stderr;
\* starts lists, for each invocation of run(), the number of
\* trigger_shut_down calls made before it.
ExitCodes == {0, 1}
Waiters == 1..NumWaiters

NewServer ==
    [shutting_down |-> None, shutdown_complete |-> None, run |-> "idle",
     transport |-> None, transport_done |-> FALSE, spawned |-> 0, calls |-> <<>>,
     waiters |-> [w \in Waiters |-> "idle"], accepts |-> <<>>, starts |-> <<>>]

ServerInit == server = NewServer

\* A cell whose set replaces the value it holds.
SetOnceOverwrites(cell, value) == Some(value)

\* SetOnce::set: stores the value in an empty cell; on a cell already set
\* it returns an error, which both callers discard, and stores nothing.
SetOnceSet(cell, value) == IF IsSome(cell) THEN cell ELSE Some(value)

\* The shutdown branch that announces completion as it starts.
BeginShutDownSetsComplete(s) ==
    [s EXCEPT !.transport = Some([code |-> Unwrap(s.shutting_down),
                                  reason |-> "Shutting down"]),
              !.shutdown_complete = SetOnceSet(@, "unit"),
              !.run = "shut_down"]

\* v = self.shutting_down.wait() => self.quic_server.shut_down(*v, ..)
BeginShutDown(s) ==
    [s EXCEPT !.transport = Some([code |-> Unwrap(s.shutting_down),
                                  reason |-> "Shutting down"]),
              !.run = "shut_down"]

\* An observer that reports the end of the shutdown instead of its start.
IsShuttingDownObservesComplete(s) == IsSome(s.shutdown_complete)

\* is_shutting_down(): self.shutting_down.initialized()
IsShuttingDown(s) == IsSome(s.shutting_down)

\* A wait that returns at once.
WaitReadyAlways(s) == TRUE

\* self.shutdown_complete.wait().await is over when the cell is set.
WaitReady(s) == IsSome(s.shutdown_complete)

\* A wait that is woken only by a set made after run() was invoked.
ShutDownReadyOnlyIfSetLater(s) ==
    IsSome(s.shutting_down) /\ s.starts[Len(s.starts)] = 0

\* self.shutting_down.wait() is ready whenever the cell is set, whether it
\* was set before or after the wait began.
ShutDownReady(s) == IsSome(s.shutting_down)

\* run() is called and reaches the select! of its loop.
RunStart ==
    /\ server.run = "idle"
    /\ server' = [server EXCEPT !.run = "select",
                                !.starts = Append(@, Len(server.calls))]
    /\ UNCHANGED <<connVars, putVars, task, peers>>

\* The number of accept() errors printed so far.
AcceptErrors(s) == Len(SelectSeq(s.accepts, LAMBDA a : a = "error"))

\* An accept branch whose Err arm leaves the loop and ends run().
RunAfterAcceptErrReturns(s, ok) ==
    IF ok THEN [s EXCEPT !.spawned = @ + 1, !.accepts = Append(@, "spawned")]
          ELSE [s EXCEPT !.accepts = Append(@, "error"), !.run = "returned"]

\* match v { Ok(quic_client) => tokio::spawn(..), Err(e) => { eprintln!;
\* continue } }: both arms go back to the select! of the loop.
RunAfterAccept(s, ok) ==
    IF ok THEN [s EXCEPT !.spawned = @ + 1, !.accepts = Append(@, "spawned")]
          ELSE [s EXCEPT !.accepts = Append(@, "error")]

\* The accept branch: Ok(quic_client) spawns a connection task, Err(e) is
\* printed and the loop continues.
RunAccept ==
    /\ server.run = "select"
    /\ \E ok \in BOOLEAN :
         /\ IF ok THEN server.spawned < MaxSpawned
                  ELSE AcceptErrors(server) < MaxAcceptErrors
         /\ server' = RunAfterAccept(server, ok)
    /\ UNCHANGED <<connVars, putVars, task, peers>>

\* trigger_shut_down(exit_code)
TriggerShutDown ==
    /\ Len(server.calls) < MaxTriggers
    /\ \E exit_code \in ExitCodes :
         server' = [server EXCEPT !.shutting_down = SetOnceSet(@, exit_code),
                                  !.calls = Append(@, exit_code)]
    /\ UNCHANGED <<connVars, putVars, task, peers>>

\* The shutdown branch of the select!: shutting_down is set; the transport's
\* shut_down is called with the stored code and awaited.
RunShutDown ==
    /\ server.run = "select"
    /\ ShutDownReady(server)
    /\ server' = BeginShutDown(server)
    /\ UNCHANGED <<connVars, putVars, task, peers>>

\* quic_server.shut_down(..).await returns.
RunShutDownDone ==
    /\ server.run = "shut_down"
    /\ server' = [server EXCEPT !.transport_done = TRUE, !.run = "complete"]
    /\ UNCHANGED <<connVars, putVars, task, peers>>

\* let _ = self.shutdown_complete.set(()); break; Ok(())
RunComplete ==
    /\ server.run = "complete"
    /\ server' = [server EXCEPT !.shutdown_complete = SetOnceSet(@, "unit"),
                                !.run = "returned"]
    /\ UNCHANGED <<connVars, putVars, task, peers>>

\* The caller drops the run() future at one of its await points, as the
\* select! of the example's main does when a signal arrives first; run() can
\* then be invoked again.
RunDrop ==
    /\ server.run \in {"select", "shut_down"}
    /\ Len(server.starts) <= MaxDrops
    /\ server' = [server EXCEPT !.run = "idle"]
    /\ UNCHANGED <<connVars, putVars, task, peers>>

\* wait_for_shut_down() is called.
WaitCall(w) ==
    /\ server.waiters[w] = "idle"
    /\ server' = [server EXCEPT !.waiters[w] = "waiting"]
    /\ UNCHANGED <<connVars, putVars, task, peers>>

\* wait_for_shut_down() returns.
WaitReturn(w) ==
    /\ server.waiters[w] = "waiting"
    /\ WaitReady(server)
    /\ server' = [server EXCEPT !.waiters[w] = "returned"]
    /\ UNCHANGED <<connVars, putVars, task, peers>>

\* ------------------------------------- connection tasks sharing the store
\* run() spawns one handle_quic_client task per accepted client; each task
\* builds its own ClientData and the tasks share nothing but the store.
\* peers[p] is one task: status of its connection, its ClientData, its
\* position in the loop, the message it holds, the handler's reply and
\* put_record result, the number of messages received, the application
\* close code; puts collects the results put_record returned to the task
\* and got the result codes of the SubmissionResult frames its client
\* received.
Peers == 1..NumPeers

NewPeer ==
    [status |-> "idle", client |-> NewClientData, pc |-> "accept", msg |-> None,
     reply |-> None, put |-> "none", n |-> 0, puts |-> {}, got |-> {}, code |-> None]

PeerInit == peers = [p \in Peers |-> NewPeer]

\* The messages a client sends: a HELLO that succeeds, a HELLO that fails, a
\* GET and a record.
PeerMsgs ==
    {[type |-> "Hello", major |-> Some(0), len |-> HelloLen(<<0>>), apps |-> Some(<<0>>)],
     [type |-> "Hello", major |-> Some(1), len |-> HelloLen(<<0>>), apps |-> Some(<<0>>)],
     [type |-> "Get", query_id |-> Some(1), references |-> Some(<<>>)],
     [type |-> "Submission", body |-> [shape |-> "record", n |-> 1]]}

\* One ClientData shared by every task.
ClientOfFirst(ps, p) == ps[1].client

\* let mut client_data = ClientData { .. }: a local of the task, passed to
\* the handler as &mut client_data.
ClientOf(ps, p) == ps[p].client

\* The task ends (return or panic): its ClientData is dropped.
PeerEnded(peer, status, code) ==
    [peer EXCEPT !.status = status, !.code = code, !.pc = "done",
                 !.client = NewClientData, !.msg = None, !.reply = None,
                 !.put = "none"]

\* tokio::spawn(handle_quic_client(..)); client.accept succeeds or fails.
PeerAccept(p) ==
    /\ peers[p].status = "idle"
    /\ \E ok \in BOOLEAN :
         peers' = [peers EXCEPT ![p] =
                     IF ok THEN [@ EXCEPT !.status = "open", !.pc = "recv"]
                     ELSE PeerEnded(@, "abandoned", None)]
    /\ UNCHANGED <<connVars, putVars, task, server>>

\* next_channel() and channel.recv() yield a message.
PeerRecv(p) ==
    /\ peers[p].status = "open"
    /\ peers[p].pc = "recv"
    /\ peers[p].n < MaxPeerMsgs
    /\ \E message \in PeerMsgs :
         peers' = [peers EXCEPT ![p].msg = Some(message), ![p].pc = "handle",
                                ![p].n = @ + 1]
    /\ UNCHANGED <<connVars, putVars, task, server>>

\* channel.recv() yields Ok(None): close(0, NO_CHANNEL); or next_channel()
\* or recv() fails: logged, return without close.
PeerRecvEnd(p) ==
    /\ peers[p].status = "open"
    /\ peers[p].pc = "recv"
    /\ \E ok \in BOOLEAN :
         peers' = [peers EXCEPT ![p] =
                     IF ok THEN PeerEnded(@, "closed", Some(ZeroCode))
                     ELSE PeerEnded(@, "abandoned", None)]
    /\ UNCHANGED <<connVars, putVars, task, server>>

\* The task after handle_mosaic_message returned h.
PeerAfterHandle(peer, h) ==
    CASE h.outcome = "Panic" -> PeerEnded(peer, "panicked", None)
      [] h.outcome = "Silent" ->
           [peer EXCEPT !.client = h.client, !.pc = "recv", !.msg = None]
      [] OTHER ->
           [peer EXCEPT !.client = h.client, !.pc = "send", !.reply = h.reply,
                        !.put = h.put,
                        !.puts = IF h.put = "none" THEN @ ELSE @ \cup {h.put}]

\* handle_mosaic_message(message, &mut client_data) runs on the task's own
\* ClientData and the shared store.
PeerHandle(p) ==
    /\ peers[p].pc = "handle"
    /\ LET message == Unwrap(peers[p].msg) IN
       \E backend \in BackendChoices(message) :
         LET h == HandleMosaicMessage(message, ClientOf(peers, p), store, backend) IN
         /\ store' = h.store
         /\ peers' = [peers EXCEPT ![p] = PeerAfterHandle(@, h)]
    /\ UNCHANGED <<conn, client_data, stream, handled, accepted, ev, putVars, task, server>>

\* The task after channel.send(response_message): a failure is logged and
\* the task returns; a staged closing code is taken, Closing is sent (its
\* failure is only logged) and the connection closed with the code.
PeerAfterSend(peer, send_ok) ==
    LET received == [peer EXCEPT !.got =
                        IF Unwrap(peer.reply).type = "SubmissionResult"
                        THEN @ \cup {Unwrap(peer.reply).result} ELSE @] IN
    IF ~send_ok THEN PeerEnded(peer, "abandoned", None)
    ELSE IF IsSome(peer.client.closing_result)
    THEN PeerEnded(received, "closed", Some(ToU8(Unwrap(peer.client.closing_result))))
    ELSE [received EXCEPT !.pc = "recv", !.msg = None, !.reply = None, !.put = "none"]

PeerSend(p) ==
    /\ peers[p].pc = "send"
    /\ \E send_ok \in BOOLEAN :
         peers' = [peers EXCEPT ![p] = PeerAfterSend(@, send_ok)]
    /\ UNCHANGED <<connVars, putVars, task, server>>

\* ------------------------------------------- concurrent put_record calls
Threads == 1..NumThreads

IdleThread == [pc |-> "idle", record |-> None, found |-> FALSE, calls |-> 0, results |-> <<>>]

PutInit ==
    /\ thr = [t \in Threads |-> IdleThread]
    /\ slots = << >>
    /\ lock = 0

\* A lock() that never waits for the holder.
MutexNeverWaits(l) == TRUE

\* Mutex::lock() can be taken when no thread holds the guard.
MutexFree(l) == l = 0

\* put_record is called with a record.
PutCall(t) ==
    /\ thr[t].pc = "idle"
    /\ thr[t].calls < MaxCalls
    /\ \E r \in ValidRecords :
         thr' = [thr EXCEPT ![t].pc = "lock", ![t].record = Some(r), ![t].calls = @ + 1]
    /\ UNCHANGED <<slots, lock, connVars, task, server, peers>>

\* let mut guard = self.records.lock().unwrap();
PutLock(t) ==
    /\ thr[t].pc = "lock"
    /\ MutexFree(lock)
    /\ lock' = t
    /\ thr' = [thr EXCEPT ![t].pc = "check"]
    /\ UNCHANGED <<slots, connVars, task, server, peers>>

\* if guard.contains_key(&id_bytes)
PutCheck(t) ==
    /\ thr[t].pc = "check"
    /\ thr' = [thr EXCEPT ![t].pc = "decided",
                          ![t].found = RecordId(Unwrap(thr[t].record)).bytes \in DOMAIN slots]
    /\ UNCHANGED <<slots, lock, connVars, task, server, peers>>

\* guard.insert(id_bytes, owned) on the absent branch.
PutInsert(t) ==
    /\ thr[t].pc = "decided"
    /\ ~thr[t].found
    /\ LET r == Unwrap(thr[t].record)
           k == RecordId(r).bytes
       IN slots' = [x \in DOMAIN slots \cup {k} |-> IF x = k THEN r ELSE slots[x]]
    /\ thr' = [thr EXCEPT ![t].pc = "inserted"]
    /\ UNCHANGED <<lock, connVars, task, server, peers>>

\* The call returns Duplicate or Inserted; the guard is dropped.
PutReturn(t) ==
    /\ \/ thr[t].pc = "decided" /\ thr[t].found
       \/ thr[t].pc = "inserted"
    /\ thr' = [thr EXCEPT ![t].pc = "idle", ![t].record = None, ![t].found = FALSE,
                 ![t].results = Append(@, <<Unwrap(thr[t].record),
                                   IF thr[t].found THEN "Duplicate" ELSE "Inserted">>)]
    /\ lock' = IF lock = t THEN 0 ELSE lock
    /\ UNCHANGED <<slots, connVars, task, server, peers>>

\* ------------------------------------------------- direct handle_get calls
\* handle_get called on a ClientData and a store, as the handler's unit
\* tests call it: the store holds any of NumStored records, the session is
\* fresh or has completed HELLO, the GET lists up to MaxGetRefs references.
StoredRecords == {[shape |-> "record", n |-> i] : i \in 1..NumStored}
GetReferences == {ToReference(RecordId(r)) : r \in StoredRecords} \cup {UnknownReference}
GetRefSeqs == UNION {[1..k -> GetReferences] : k \in 0..MaxGetRefs}
GetCalls ==
    {[type |-> "Get", query_id |-> q, references |-> r] :
        q \in {None} \cup {Some(i) : i \in QueryIds},
        r \in {None} \cup {Some(s) : s \in GetRefSeqs}}

\* The store after put_record of each record of the set.
StoreOf(records) ==
    [k \in {RecordId(r).bytes : r \in records} |->
        CHOOSE r \in records : RecordId(r).bytes = k]

\* The sessions a ClientData can hold: as constructed, or after a HELLO
\* that handle_hello accepted.
Sessions ==
    {NewClientData} \cup
    {HandleHello(m, NewClientData).client :
        m \in {w \in WellFormedHellos : w.major = Some(SUPPORTED_MAJOR_VERSION)}}

GetInit ==
    /\ store \in {StoreOf(S) : S \in SUBSET StoredRecords}
    /\ conn = [c \in Conns |-> NoConn]
    /\ client_data \in [Conns -> Sessions]
    /\ stream = <<>>
    /\ handled = 0
    /\ accepted = [c \in Conns |-> {}]
    /\ ev = NoEvent
    /\ PutInit
    /\ TaskInit
    /\ ServerInit
    /\ PeerInit

\* handle_get(&message, &client, &store): reads the session and the store,
\* changes neither, so that a second call starts from the state the first
\* started from; one call is made per setup, as in the tests.
GetCall(c) ==
    /\ ev = NoEvent
    /\ \E message \in GetCalls :
       \E backend \in GetBackendOutcomes :
         ev' = [NoEvent EXCEPT
                  !.conn = c, !.msg = message, !.before = client_data[c],
                  !.after = client_data[c], !.outcome = "Get",
                  !.get = HandleGet(message, client_data[c], store, backend)]
    /\ UNCHANGED <<store, conn, client_data, stream, handled, accepted, putVars, task, server, peers>>

\* handle_submission(message, &mut client, &store, &logger) called on a
\* ClientData and a store, as the handler's unit tests call it.
SubmissionCall(c) ==
    /\ ev = NoEvent
    /\ \E message \in SubmissionMsgs :
       \E backend \in BackendOutcomes :
         LET r == HandleSubmission(message, client_data[c], store, backend) IN
         /\ store' = r.store
         /\ client_data' = [client_data EXCEPT ![c] = r.client]
         /\ ev' = [NoEvent EXCEPT
                      !.conn = c, !.msg = message, !.before = client_data[c],
                      !.after = r.client, !.outcome = "Submission",
                      !.reply = Some(r.reply), !.put = r.put, !.logs = r.logs]
    /\ UNCHANGED <<conn, stream, handled, accepted, putVars, task, server, peers>>

\* ------------------------------------------------- direct put_record calls
\* LmdbStore::put_record called on the adapter, as the store's unit test
\* calls it, with the engine succeeding or failing in any of its ways.
\* ev.msg holds the record, what the engine did and the error the adapter
\* returned; ev.put the adapter's result.
AdapterPut(c) ==
    /\ handled < MaxPuts
    /\ handled' = handled + 1
    /\ \E record \in StoredRecords :
       \E backend \in {"ok"} \cup EngineErrors :
         LET r == PutRecord(store, record, backend) IN
         /\ store' = r.store
         /\ ev' = [NoEvent EXCEPT
                      !.conn = c, !.outcome = "Put", !.put = r.result,
                      !.msg = [type |-> "put_record", record |-> record,
                               backend |-> backend,
                               err |-> IF r.result = "Err"
                                       THEN Some(MapStoreError(backend)) ELSE None]]
    /\ UNCHANGED <<conn, client_data, stream, accepted, putVars, task, server, peers>>

\* ----------------------------------------- direct validate_submission calls
\* validate_submission called on a message and a ClientData, as the
\* validator's unit tests call it, with result_code applied to its error.
\* ClientData's fields are public: the session is any combination of them.
ValidateMsgs ==
    SubmissionMsgs \cup ReservedMsgs \cup OtherMsgs
        \cup {[type |-> "Hello", major |-> Some(0), len |-> HelloLen(<<>>), apps |-> Some(<<>>)]}

AnyClientData ==
    [mosaic_version : {None, Some(SUPPORTED_MAJOR_VERSION)},
     applications : {None} \cup {Some(SelectSeq(a, IsZeroApp)) : a \in AppSeqs},
     closing_result : {None, Some("Invalid")}]

\* let err = validate_submission(&message, &client).unwrap_err();
\* err.result_code()
Validated(message, client) ==
    LET v == ValidateSubmission(message, client) IN
    [ok |-> v.ok, record |-> v.record, err |-> v.err,
     code |-> IF v.ok THEN "none" ELSE ResultCodeOf(v.err)]

\* One call of the validator; message and session are borrowed immutably.
ValidateCall(c) ==
    /\ handled < MaxValidations
    /\ handled' = handled + 1
    /\ \E message \in ValidateMsgs :
       \E client \in AnyClientData :
         ev' = [NoEvent EXCEPT
                  !.conn = c, !.msg = message, !.before = client,
                  !.after = client, !.outcome = "Validate",
                  !.valid = Validated(message, client)]
    /\ UNCHANGED <<store, conn, client_data, stream, accepted, putVars, task, server, peers>>

\* Between two calls of the validator another task stores a record.
ValidateStorePut ==
    /\ \E r \in ValidRecords :
         /\ RecordId(r).bytes \notin DOMAIN store
         /\ store' = PutRecord(store, r, "ok").store
    /\ UNCHANGED <<conn, client_data, stream, handled, accepted, ev, putVars, task, server, peers>>

\* ---------------------------------------------------------- specifications
Init == ConnInit /\ PutInit /\ TaskInit /\ ServerInit /\ PeerInit

Next ==
    \E c \in Conns :
        \/ Accept(c)
        \/ AcceptError(c)
        \/ TransportError(c)
        \/ RecvNone(c)
        \/ Dispatch(c)

Spec == Init /\ [][Next]_vars

PutNext ==
    \E t \in Threads :
        \/ PutCall(t)
        \/ PutLock(t)
        \/ PutCheck(t)
        \/ PutInsert(t)
        \/ PutReturn(t)

PutSpec == Init /\ [][PutNext]_vars

StreamNext ==
    \E c \in Conns :
        \/ TaskAccept(c)
        \/ TaskNextChannel(c)
        \/ TaskNextChannelErr(c)
        \/ TaskRecv(c)
        \/ TaskRecvNone(c)
        \/ TaskRecvErr(c)
        \/ TaskHandle(c)
        \/ TaskSend(c)
        \/ TaskClosing(c)

StreamSpec == Init /\ [][StreamNext]_vars

ServerNext ==
    \/ RunStart
    \/ RunAccept
    \/ TriggerShutDown
    \/ RunShutDown
    \/ RunShutDownDone
    \/ RunComplete
    \/ \E w \in Waiters : WaitCall(w)
    \/ \E w \in Waiters : WaitReturn(w)

ServerSpec == Init /\ [][ServerNext]_vars

\* The runtime polls a task whose await is ready: the ready shutdown branch
\* of the select! is taken, the transport's shut_down finishes, run() goes
\* on after it, and a waiter whose cell is set is resumed.
ServerFairness ==
    /\ WF_vars(RunShutDown)
    /\ WF_vars(RunShutDownDone)
    /\ WF_vars(RunComplete)
    /\ \A w \in Waiters : WF_vars(WaitReturn(w))

ServerLiveSpec == Init /\ [][ServerNext]_vars /\ ServerFairness

\* The server driven as the example's main drives it: run() may be dropped
\* and invoked again.
MainNext == ServerNext \/ RunDrop

MainLiveSpec == Init /\ [][MainNext]_vars /\ ServerFairness

PairNext ==
    \E p \in Peers :
        \/ PeerAccept(p)
        \/ PeerRecv(p)
        \/ PeerRecvEnd(p)
        \/ PeerHandle(p)
        \/ PeerSend(p)

PairSpec == Init /\ [][PairNext]_vars

AdapterNext == \E c \in Conns : AdapterPut(c)

AdapterSpec == Init /\ [][AdapterNext]_vars

ValidateNext ==
    \/ \E c \in Conns : ValidateCall(c)
    \/ ValidateStorePut

ValidateSpec == Init /\ [][ValidateNext]_vars

GetNext ==
    \E c \in Conns :
        \/ GetCall(c)
        \/ SubmissionCall(c)

GetSpec == GetInit /\ [][GetNext]_vars

\* ------------------------------------------------------------------ claims
\* A step of the driver that dispatches a message to the handler; the
\* connection it acts on is ev'.conn and the message ev'.msg.
DispatchStep == handled' = handled + 1

\* The record a Submission carries, when its bytes parse.
Carried(message) == RecordFromBytes(message.body)

\* C1: no put_record call and no change of the store's record set happens
\* while handling a message of a session whose HELLO has not completed
\* (negotiated version or application set unset); the store changes only in
\* dispatch steps of handshaked sessions.
C1_NoStoreMutationBeforeHello ==
    [][/\ (DispatchStep /\ ~Handshaked(client_data[ev'.conn]))
            => (ev'.put = "none" /\ store' = store)
       /\ store' # store => DispatchStep]_vars

\* C1 witness: a Submission of a valid record was handled on a session
\* that had not completed HELLO.
C1_Witness ==
    /\ ev.msg.type = "Submission"
    /\ ev.msg.body.shape = "record"
    /\ ~Handshaked(ev.before)
    /\ ev.put = "none"

\* C2: a put_record(r) that the backend does not fail returns Inserted
\* exactly when r is not yet stored (so the first such call returns Inserted)
\* and Duplicate exactly when it is (every later call); the record set gains
\* an Id only by a put that returns Inserted, and has_record of r's
\* reference is true after the first put and in every later state.
C2_PutInsertedThenDuplicate ==
    [][/\ (DispatchStep /\ ev'.put \in {"Inserted", "Duplicate"}) =>
            LET reference == ToReference(RecordId(Carried(ev'.msg).record)) IN
            /\ ev'.put = "Inserted" <=> ~HasRecord(store, reference)
            /\ ev'.put = "Duplicate" <=> HasRecord(store, reference)
            /\ HasRecord(store', reference)
       /\ \A reference \in References :
            /\ HasRecord(store, reference) => HasRecord(store', reference)
            /\ (~HasRecord(store, reference) /\ HasRecord(store', reference)) =>
                 /\ DispatchStep
                 /\ ev'.put = "Inserted"
                 /\ ToReference(RecordId(Carried(ev'.msg).record)) = reference]_vars

\* C2 witness: a later put of a stored record returned Duplicate and
\* has_record of its reference is true.
C2_Witness ==
    /\ ev.put = "Duplicate"
    /\ HasRecord(store, ToReference(RecordId(Carried(ev.msg).record)))

\* Results of the put_record calls on record r returned so far, over all
\* threads.
PutResults(r, result) ==
    {<<t, i>> \in Threads \X (1..MaxCalls) :
        i <= Len(thr[t].results) /\ thr[t].results[i] = <<r, result>>}

\* C3: among concurrent put_record calls with the same Id on an initially
\* empty slot, at most one returns Inserted, and no call returns Duplicate
\* unless one has returned Inserted: of two calls, exactly one is Inserted
\* and the other Duplicate.
C3_PutAtomic ==
    \A r \in ValidRecords :
        /\ Cardinality(PutResults(r, "Inserted")) <= 1
        /\ PutResults(r, "Duplicate") # {} => Cardinality(PutResults(r, "Inserted")) = 1

\* C3 witness: two threads called put_record with the same record while the
\* slot was empty, both calls returned, one Inserted and one Duplicate.
C3_Witness ==
    \E r \in ValidRecords : \E t1, t2 \in Threads :
        /\ t1 # t2
        /\ thr[t1].results = <<<<r, "Inserted">>>>
        /\ thr[t2].results = <<<<r, "Duplicate">>>>

\* The frames the driver is to send for a GetResponse g: one Record frame
\* per record, each tagged with the query id, then QueryClosed.
GetFrames(g) ==
    [i \in 1..Len(g.records) |-> NewRecord(Unwrap(g.query_id), g.records[i])]
        \o <<NewQueryClosed(Unwrap(g.query_id), g.result_code)>>

\* C4: round trip over a connection: once a Submission of a valid record r
\* has been answered with Accepted on a connection, a GET(query_id,
\* [r.id.to_reference()]) on that connection is answered on its stream by a
\* Record frame carrying query_id and r's bytes, followed by
\* QueryClosed(query_id, Success).
C4_RoundTrip ==
    \A r \in ValidRecords :
        (/\ ev.msg.type = "Get"
         /\ r \in accepted[ev.conn]
         /\ IsSome(ev.msg.query_id)
         /\ ev.msg.references = Some(<<ToReference(RecordId(r))>>))
        => stream = <<NewRecord(Unwrap(ev.msg.query_id), r),
                      NewQueryClosed(Unwrap(ev.msg.query_id), "Success")>>

\* C5: for every GET with a query id, the driver sends on the GET's stream
\* one Record frame per record of the GetResponse, in order and tagged with
\* the query id, then exactly one QueryClosed(query_id, result_code); a
\* post-handshake GET of an absent reference yields only
\* QueryClosed(query_id, NotFound).
C5_GetStreamsRecordsThenQueryClosed ==
    (ev.msg.type = "Get" /\ IsSome(ev.msg.query_id))
        => stream = GetFrames(HandleGet(ev.msg, ev.before, store, "ok"))

\* C6: for a Submission of a valid record on a handshaked session the reply
\* is a SubmissionResult that is Accepted iff the store returned Inserted and
\* Duplicate iff the store returned Duplicate; a re-submission of a stored
\* record leaves the store unchanged, holding exactly one copy of it.
C6_AcceptedIffInserted ==
    [][(/\ DispatchStep
        /\ ev'.msg.type = "Submission"
        /\ Carried(ev'.msg).ok
        /\ Handshaked(client_data[ev'.conn]))
       => LET r == Carried(ev'.msg).record
              reply == Unwrap(ev'.reply)
          IN /\ IsSome(ev'.reply)
             /\ reply.type = "SubmissionResult"
             /\ reply.result = "Accepted" <=> ev'.put = "Inserted"
             /\ reply.result = "Duplicate" <=> ev'.put = "Duplicate"
             /\ RecordId(r).bytes \in DOMAIN store =>
                  /\ store' = store
                  /\ Cardinality({k \in DOMAIN store' : store'[k] = r}) = 1]_vars

\* C6 witness: a stored record was submitted again on a handshaked session
\* and answered Duplicate, the store holding one record.
C6_Witness ==
    /\ ev.msg.type = "Submission"
    /\ Handshaked(ev.before)
    /\ ev.put = "Duplicate"
    /\ Unwrap(ev.reply).result = "Duplicate"
    /\ Cardinality(DOMAIN store) = 1

\* C7: every SubmissionResult that answers a Submission, whatever its result
\* code, echoes the first 32 bytes of the Id of the record the Submission
\* carries.
C7_ResultEchoesIdPrefix ==
    (/\ ev.msg.type = "Submission"
     /\ IsSome(ev.reply)
     /\ Unwrap(ev.reply).type = "SubmissionResult")
    => /\ Carried(ev.msg).ok
       /\ Unwrap(ev.reply).id_prefix = RecordId(Carried(ev.msg).record).bytes[1]

\* C7 witness: a Submission was answered with SubmissionResult(GeneralError)
\* after a store failure.
C7_Witness ==
    /\ ev.msg.type = "Submission"
    /\ IsSome(ev.reply)
    /\ Unwrap(ev.reply).type = "SubmissionResult"
    /\ Unwrap(ev.reply).result = "GeneralError"

\* C8: when put_record fails with a backend error during a valid Submission
\* on a handshaked session, the reply is SubmissionResult(id, GeneralError),
\* exactly one log entry is emitted, no closing code is staged, the session
\* state and the store are unchanged, and (the reply sent) the connection
\* stays open for later messages.
C8_StoreErrorIsPerRequest ==
    [][(DispatchStep /\ ev'.put = "Err")
       => LET c == ev'.conn IN
          /\ ev'.msg.type = "Submission"
          /\ Carried(ev'.msg).ok
          /\ Handshaked(client_data[c])
          /\ ev'.reply = Some([type |-> "SubmissionResult",
                               id_prefix |-> RecordId(Carried(ev'.msg).record).bytes[1],
                               result |-> "GeneralError"])
          /\ ev'.logs = 1
          /\ IsNone(ev'.after.closing_result)
          /\ ev'.after = client_data[c]
          /\ store' = store
          /\ ev'.sent => /\ conn'[c] = conn[c]
                         /\ conn'[c].status = "open"
                         /\ client_data'[c] = client_data[c]]_vars

\* C8 witness: a store failure was answered and the connection is open.
C8_Witness ==
    /\ ev.put = "Err"
    /\ ev.sent
    /\ ev.logs = 1
    /\ conn[ev.conn].status = "open"
    /\ Handshaked(client_data[ev.conn])

\* C9: a Submission carrying a parseable record on a session that has not
\* completed HELLO is answered with SubmissionResult(id_prefix, Invalid); the
\* store is unchanged, at least one log entry is emitted, no closing code is
\* staged, and the session stays open and unhandshaked.
C9_SubmissionBeforeHelloInvalid ==
    [][(/\ DispatchStep
        /\ ev'.msg.type = "Submission"
        /\ Carried(ev'.msg).ok
        /\ ~Handshaked(client_data[ev'.conn]))
       => LET c == ev'.conn IN
          /\ ev'.reply = Some([type |-> "SubmissionResult",
                               id_prefix |-> RecordId(Carried(ev'.msg).record).bytes[1],
                               result |-> "Invalid"])
          /\ store' = store
          /\ ev'.logs >= 1
          /\ IsNone(ev'.after.closing_result)
          /\ ~Handshaked(ev'.after)
          /\ ev'.after = client_data[c]
          /\ ev'.sent => /\ conn'[c] = conn[c]
                         /\ conn'[c].status = "open"
                         /\ client_data'[c] = client_data[c]]_vars

\* C9 witness: a valid record submitted before HELLO was answered Invalid
\* and the connection is open and unhandshaked.
C9_Witness ==
    /\ ev.msg.type = "Submission"
    /\ Carried(ev.msg).ok
    /\ ~Handshaked(ev.before)
    /\ ev.sent
    /\ Unwrap(ev.reply).result = "Invalid"
    /\ conn[ev.conn].status = "open"
    /\ ~Handshaked(client_data[ev.conn])

\* C10: when no Id can be extracted from a Submission's record bytes, the
\* handler replies Closing(Invalid) and the store is unchanged; the reply
\* sent, the driver closes the whole connection with the Invalid code, so
\* that no further message of the connection is processed.
C10_UnreadableRecordClosesConnection ==
    [][(/\ DispatchStep
        /\ ev'.msg.type = "Submission"
        /\ ~Carried(ev'.msg).ok)
       => LET c == ev'.conn IN
          /\ ev'.reply = Some(NewClosing("Invalid"))
          /\ store' = store
          /\ ev'.sent => /\ conn'[c].status = "closed"
                         /\ conn'[c].code = Some(ToU8("Invalid"))]_vars

\* C11: a Submission answered with a SubmissionResult, whatever its code
\* (Accepted, Duplicate, Invalid, TooLarge, GeneralError), leaves
\* closing_result unset, and once the reply is sent the connection is open
\* and the session kept, so that the driver serves the next stream; no
\* SubmissionResult outcome terminates the connection.
C11_SubmissionResultKeepsConnection ==
    [][(/\ DispatchStep
        /\ ev'.msg.type = "Submission"
        /\ IsSome(ev'.reply)
        /\ Unwrap(ev'.reply).type = "SubmissionResult")
       => LET c == ev'.conn IN
          /\ Unwrap(ev'.reply).result \in
                {"Accepted", "Duplicate", "Invalid", "TooLarge", "GeneralError"}
          /\ IsNone(ev'.after.closing_result)
          /\ ~ev'.closing_sent
          /\ ev'.sent => /\ conn'[c] = conn[c]
                         /\ conn'[c].status = "open"
                         /\ client_data'[c] = ev'.after
                         /\ stream' = <<Unwrap(ev'.reply)>>]_vars

\* C11 witness: after a Submission answered with Accepted on a connection,
\* the driver served a further Submission of that connection, answered with
\* Duplicate, and the connection is still open.
C11_Witness ==
    /\ ev.msg.type = "Submission"
    /\ ev.conn \in Conns
    /\ accepted[ev.conn] # {}
    /\ ev.put = "Duplicate"
    /\ ev.sent
    /\ conn[ev.conn].status = "open"
    /\ IsNone(client_data[ev.conn].closing_result)

\* The HELLO failure paths, read off the frame: major version missing or
\* different from 0, frame length below 8 or not 8 plus a multiple of 4,
\* application-id vector unparseable.
HelloFails(message) ==
    \/ IsNone(message.major)
    \/ Unwrap(message.major) # 0
    \/ message.len < 8
    \/ (message.len - 8) % 4 # 0
    \/ IsNone(message.apps)

\* C12: on an unhandshaked session every HELLO failure path replies
\* HelloAck(Invalid, 0, []), sets closing_result to Invalid and leaves the
\* negotiated version and the application set unset.
C12_HelloFailureStagesInvalid ==
    [][(/\ DispatchStep
        /\ ev'.msg.type = "Hello"
        /\ ~Handshaked(client_data[ev'.conn])
        /\ HelloFails(ev'.msg))
       => /\ ev'.reply = Some([type |-> "HelloAck", result |-> "Invalid",
                               major |-> 0, apps |-> <<>>])
          /\ ev'.after.closing_result = Some("Invalid")
          /\ IsNone(ev'.after.mosaic_version)
          /\ IsNone(ev'.after.applications)
          /\ store' = store]_vars

\* C12 witness: a HELLO of version 0 whose frame length is not 8 plus a
\* multiple of 4 was handled on an unhandshaked session and staged Invalid.
C12_Witness ==
    /\ ev.msg.type = "Hello"
    /\ ev.msg.major = Some(0)
    /\ ev.msg.len = 9
    /\ ~Handshaked(ev.before)
    /\ ev.after.closing_result = Some("Invalid")

\* C13: after a malformed HELLO on an unhandshaked session, the reply sent,
\* the stream carries HelloAck(Invalid, 0, []) first and then (its send
\* succeeding) Closing(Invalid) and nothing else; the driver closes the
\* whole connection with the Invalid code as application close code, and no
\* message of a closed connection is dispatched to the handler.
C13_MalformedHelloClosesConnection ==
    [][/\ (/\ DispatchStep
           /\ ev'.msg.type = "Hello"
           /\ ~Handshaked(client_data[ev'.conn])
           /\ HelloFails(ev'.msg)
           /\ ev'.sent)
          => LET c == ev'.conn
                 ack == [type |-> "HelloAck", result |-> "Invalid",
                         major |-> 0, apps |-> <<>>]
                 closing == [type |-> "Closing", result |-> "Invalid"]
             IN /\ stream' = IF ev'.closing_sent THEN <<ack, closing>> ELSE <<ack>>
                /\ conn'[c].status = "closed"
                /\ conn'[c].code = Some(<<"u8", "Invalid">>)
                /\ conn'[c].reason = "closing"
       /\ \A c \in Conns :
            conn[c].status = "closed"
                => /\ ~(DispatchStep /\ ev'.conn = c)
                   /\ conn'[c] = conn[c]]_vars

\* C13 witness: a HELLO of major version 1 was answered with HelloAck(Invalid)
\* and Closing(Invalid) on its stream and the connection is closed with the
\* Invalid code.
C13_Witness ==
    /\ ev.msg.type = "Hello"
    /\ ev.msg.major = Some(1)
    /\ ev.closing_sent
    /\ Len(stream) = 2
    /\ stream[2].type = "Closing"
    /\ conn[ev.conn].status = "closed"
    /\ conn[ev.conn].code = Some(<<"u8", "Invalid">>)

\* C14: on a Handshaked session a further HELLO, well-formed or malformed,
\* of any version, yields no reply and changes nothing: version, application
\* set and closing_result, the store and the connection are as before.
C14_RepeatedHelloIgnored ==
    [][(/\ DispatchStep
        /\ ev'.msg.type = "Hello"
        /\ Handshaked(client_data[ev'.conn]))
       => LET c == ev'.conn IN
          /\ IsNone(ev'.reply)
          /\ ev'.outcome = "Silent"
          /\ ev'.after = client_data[c]
          /\ client_data'[c] = client_data[c]
          /\ store' = store
          /\ conn'[c] = conn[c]
          /\ conn'[c].status = "open"
          /\ stream' = <<>>]_vars

\* C14 witness: a malformed HELLO was handled on a Handshaked session, which
\* is still Handshaked and open.
C14_Witness ==
    /\ ev.msg.type = "Hello"
    /\ HelloFails(ev.msg)
    /\ Handshaked(ev.before)
    /\ ev.conn \in Conns
    /\ client_data[ev.conn] = ev.before
    /\ conn[ev.conn].status = "open"

\* C15: a well-formed HELLO of major version 0 on an unhandshaked session is
\* answered with HelloAck(Success, 0, accepted) and leaves the session
\* Handshaked with version 0, applications = the list of the HelloAck and
\* closing_result unset.
C15_HelloSuccessSetsSession ==
    [][(/\ DispatchStep
        /\ ev'.msg.type = "Hello"
        /\ ~Handshaked(client_data[ev'.conn])
        /\ ~HelloFails(ev'.msg))
       => LET c == ev'.conn IN
          /\ IsSome(ev'.reply)
          /\ Unwrap(ev'.reply).type = "HelloAck"
          /\ Unwrap(ev'.reply).result = "Success"
          /\ Unwrap(ev'.reply).major = 0
          /\ ev'.after = [mosaic_version |-> Some(0),
                          applications |-> Some(Unwrap(ev'.reply).apps),
                          closing_result |-> None]
          /\ Handshaked(ev'.after)
          /\ ev'.sent => /\ client_data'[c] = ev'.after
                         /\ conn'[c].status = "open"]_vars

\* C15 witness: HELLO(0, [0]) was acknowledged with Success on a fresh
\* session, which now holds version 0 and applications [0].
C15_Witness ==
    /\ ev.msg.type = "Hello"
    /\ ev.msg.apps = Some(<<0>>)
    /\ ev.before = NewClientData
    /\ ev.sent
    /\ ev.conn \in Conns
    /\ client_data[ev.conn] =
          [mosaic_version |-> Some(0), applications |-> Some(<<0>>),
           closing_result |-> None]

\* The ids a sequence lists.
Range(seq) == {seq[i] : i \in 1..Len(seq)}

\* C16: in a successful HELLO the accepted list is the requested ids
\* intersected with {0}: it is [0], app id 0 once, when 0 was requested
\* (also when it was requested several times) and [] otherwise.
C16_AcceptedIsIntersection ==
    (/\ ev.msg.type = "Hello"
     /\ IsSome(ev.reply)
     /\ Unwrap(ev.reply).result = "Success")
    => Unwrap(ev.reply).apps =
          IF 0 \in Range(Unwrap(ev.msg.apps)) THEN <<0>> ELSE <<>>

\* C17: a well-formed HELLO of version 0 whose requested application ids do
\* not include 0 succeeds: HelloAck(Success, 0, []), the session Handshaked
\* with applications = [] and no closing code staged.
C17_HelloWithoutAppZeroSucceeds ==
    [][(/\ DispatchStep
        /\ ev'.msg.type = "Hello"
        /\ ~Handshaked(client_data[ev'.conn])
        /\ ~HelloFails(ev'.msg)
        /\ 0 \notin Range(Unwrap(ev'.msg.apps)))
       => /\ ev'.reply = Some([type |-> "HelloAck", result |-> "Success",
                               major |-> 0, apps |-> <<>>])
          /\ Handshaked(ev'.after)
          /\ ev'.after.applications = Some(<<>>)
          /\ IsNone(ev'.after.closing_result)
          /\ ev'.sent => conn'[ev'.conn].status = "open"]_vars

\* C17 witness: HELLO(0, [1]) was acknowledged and the session is Handshaked
\* with an empty application list on an open connection.
C17_Witness ==
    /\ ev.msg.type = "Hello"
    /\ ev.msg.apps = Some(<<1>>)
    /\ ev.sent
    /\ ev.conn \in Conns
    /\ Handshaked(client_data[ev.conn])
    /\ client_data[ev.conn].applications = Some(<<>>)
    /\ conn[ev.conn].status = "open"

\* A handle_get call was made with a message that carries a query id.
GetAnswered == ev.outcome = "Get" /\ IsSome(ev.msg.query_id)

\* C18: a GET (with a query id) on a session that is not handshaked returns
\* Invalid with an empty record list for every reference list, also when
\* the references are of stored records; a GET whose references cannot be
\* decoded returns Invalid with no records.
C18_GetInvalidWithoutHandshake ==
    (/\ GetAnswered
     /\ ~Handshaked(ev.before) \/ IsNone(ev.msg.references))
    => /\ ev.get.ok
       /\ ev.get.result_code = "Invalid"
       /\ ev.get.records = <<>>

\* C18 witness: a GET of a stored record's reference was answered Invalid
\* on a session that has not completed HELLO.
C18_Witness ==
    /\ GetAnswered
    /\ ~Handshaked(ev.before)
    /\ IsSome(ev.msg.references)
    /\ Len(Unwrap(ev.msg.references)) = 1
    /\ HasRecord(store, Unwrap(ev.msg.references)[1])
    /\ ev.get.result_code = "Invalid"

\* The references of a list that are Ids of stored records, in list order.
PresentReferences(s, references) ==
    SelectSeq(references, LAMBDA reference : reference.bytes \in DOMAIN s)

\* C19: for a GET on a handshaked session with decodable references (the
\* store not failing) the returned records are exactly the stored records
\* of the references present in the store, in the order of the request's
\* list; result_code is Success iff at least one record was found and
\* NotFound otherwise; the response's query_id is the request's.
C19_GetReturnsPresentInOrder ==
    (/\ GetAnswered
     /\ Handshaked(ev.before)
     /\ IsSome(ev.msg.references)
     /\ ev.get.err \notin BackendOutcomes \ {"ok"})
    => LET present == PresentReferences(store, Unwrap(ev.msg.references)) IN
       /\ ev.get.ok
       /\ ev.get.records = [i \in 1..Len(present) |-> store[present[i].bytes]]
       /\ ev.get.result_code = "Success" <=> Len(ev.get.records) >= 1
       /\ ev.get.result_code = "NotFound" <=> Len(ev.get.records) = 0
       /\ ev.get.query_id = ev.msg.query_id

\* C19 witness: a GET listing the references of two different stored
\* records was answered Success with the two records.
C19_Witness ==
    /\ GetAnswered
    /\ Handshaked(ev.before)
    /\ IsSome(ev.msg.references)
    /\ Len(Unwrap(ev.msg.references)) = 2
    /\ Unwrap(ev.msg.references)[1] # Unwrap(ev.msg.references)[2]
    /\ Len(ev.get.records) = 2
    /\ ev.get.result_code = "Success"

\* C20: a GET message from which no query id can be extracted produces the
\* hard error, not a GetResponse, whatever the handshake state, and no
\* get_record call is made for it.
C20_GetWithoutQueryIdIsError ==
    (ev.outcome = "Get" /\ IsNone(ev.msg.query_id))
    => /\ ~ev.get.ok
       /\ ev.get.err = "General"
       /\ ev.get.lookups = 0

\* C20 witness: a GET without a query id, listing the reference of a stored
\* record, was refused on a handshaked session.
C20_Witness ==
    /\ ev.outcome = "Get"
    /\ IsNone(ev.msg.query_id)
    /\ Handshaked(ev.before)
    /\ IsSome(ev.msg.references)
    /\ Len(Unwrap(ev.msg.references)) >= 1
    /\ HasRecord(store, Unwrap(ev.msg.references)[1])
    /\ ~ev.get.ok

\* C21: an Unrecognized message, or a message of a type the handler has no
\* arm for, is answered with exactly one Unrecognized reply in every session
\* state; the session and the store are unchanged and the connection stays
\* open.
C21_UnknownAnsweredUnrecognized ==
    [][(/\ DispatchStep
        /\ ev'.msg.type \notin {"Hello", "Get", "Query", "Subscribe",
                                "Unsubscribe", "Submission"})
       => LET c == ev'.conn IN
          /\ ev'.reply = Some([type |-> "Unrecognized"])
          /\ ev'.after = client_data[c]
          /\ store' = store
          /\ ~ev'.closing_sent
          /\ ev'.sent => /\ stream' = <<[type |-> "Unrecognized"]>>
                         /\ client_data'[c] = client_data[c]
                         /\ conn'[c] = conn[c]
                         /\ conn'[c].status = "open"]_vars

\* C21 witness: a HelloAck, a type the handler has no arm for, was answered
\* on a handshaked session, which is unchanged and open.
C21_Witness ==
    /\ ev.msg.type = "HelloAck"
    /\ ev.sent
    /\ Handshaked(ev.before)
    /\ ev.conn \in Conns
    /\ client_data[ev.conn] = ev.before
    /\ conn[ev.conn].status = "open"
    /\ stream = <<[type |-> "Unrecognized"]>>

\* C22: a Query, Subscribe or Unsubscribe message is handled without
\* aborting the connection task: the handler returns an Unrecognized reply
\* and the connection stays open to serve later messages.
C22_ReservedTypesAnswered ==
    [][(/\ DispatchStep
        /\ ev'.msg.type \in {"Query", "Subscribe", "Unsubscribe"})
       => /\ ev'.outcome = "Reply"
          /\ ev'.reply = Some([type |-> "Unrecognized"])
          /\ ev'.sent => conn'[ev'.conn].status = "open"]_vars

\* C23: for every (message, session) the validator fails with
\* WrongMessageType -> Invalid when the header type is not Submission, with
\* HandshakeNotComplete -> Invalid when the negotiated version or the
\* application set is missing, with RecordInvalid -> Invalid when the record
\* bytes fail verification, except the cause "record too long" -> TooLarge;
\* otherwise it returns the verified record, whose bytes are the message
\* bytes after the 8-byte header.
C23_ValidatorResultCodes ==
    ev.outcome = "Validate"
    => LET m == ev.msg
           s == ev.before
           v == ev.valid
       IN CASE m.type # "Submission" ->
                 ~v.ok /\ v.err = "WrongMessageType" /\ v.code = "Invalid"
            [] m.type = "Submission"
                 /\ (IsNone(s.mosaic_version) \/ IsNone(s.applications)) ->
                 ~v.ok /\ v.err = "HandshakeNotComplete" /\ v.code = "Invalid"
            [] OTHER ->
                 CASE m.body.shape = "toolong" ->
                        ~v.ok /\ v.err = "RecordTooLong" /\ v.code = "TooLarge"
                   [] m.body.shape = "corrupt" ->
                        /\ ~v.ok
                        /\ v.err \notin {"WrongMessageType", "HandshakeNotComplete",
                                         "RecordTooLong", "none"}
                        /\ v.code = "Invalid"
                   [] OTHER ->
                        v.ok /\ v.record = Some(m.body) /\ v.code = "none"

\* C23 witness: a Submission whose record is too long was validated on a
\* handshaked session and mapped to TooLarge.
C23_Witness ==
    /\ ev.outcome = "Validate"
    /\ ev.msg.type = "Submission"
    /\ ev.msg.body.shape = "toolong"
    /\ Handshaked(ev.before)
    /\ ev.valid.code = "TooLarge"

ChannelWellFormed(ch) ==
    /\ Len(ch.msgs) <= 1
    /\ ch.calls \in {<<>>, ch.msgs}
    /\ IsSome(ch.reply) => ch.calls # <<>>
    /\ \/ ch.frames = <<>>
       \/ /\ IsSome(ch.reply)
          /\ ch.frames[1] = Unwrap(ch.reply)
          /\ Len(ch.frames) <= 2
          /\ Len(ch.frames) = 2 => ch.frames[2].type = "Closing"

\* The handling of a stream's message is finished: the message was
\* received, the handler was called with it and its reply, if any, was sent.
ChannelFinished(ch) ==
    /\ Len(ch.msgs) = 1
    /\ ch.calls = ch.msgs
    /\ IsSome(ch.reply) => Len(ch.frames) >= 1

\* C25: within one connection the driver handles one stream at a time: on
\* each stream it receives one message, calls the handler once for it and
\* sends the handler's reply on that stream; it obtains the next stream only
\* when the current message's handling and replies are finished, and a
\* stream that is not the current one gets no further activity.
C25_OneStreamAtATime ==
    [][\A c \in Conns :
         LET old == task[c].channels
             new == task'[c].channels
             n == Len(old)
         IN /\ Len(new) \in {n, n + 1}
            /\ \A k \in 1..Len(new) : ChannelWellFormed(new[k])
            /\ \A k \in 1..(n - 1) : new[k] = old[k]
            /\ Len(new) = n + 1 =>
                 /\ new[n + 1] = [msgs |-> <<>>, calls |-> <<>>, reply |-> None,
                                  frames |-> <<>>]
                 /\ n >= 1 => (new[n] = old[n] /\ ChannelFinished(old[n]))]_vars

\* C25 witness: a connection served two streams one after the other, with
\* different messages, and sent each reply on the stream of its message.
C25_Witness ==
    \E c \in Conns :
        /\ Len(task[c].channels) >= 2
        /\ ChannelFinished(task[c].channels[1])
        /\ ChannelFinished(task[c].channels[2])
        /\ task[c].channels[1].frames # <<>>
        /\ task[c].channels[2].frames # <<>>
        /\ task[c].channels[1].msgs # task[c].channels[2].msgs
        /\ task[c].channels[1].frames # task[c].channels[2].frames

C27_PeerCloseTerminatesCleanly ==
    \A c \in Conns :
        task[c].peer_closed
            => /\ conn[c].status = "closed"
               /\ conn[c].code = Some(<<"u8", "0">>)
               /\ conn[c].reason = "No QUIC channel"
               /\ task[c].log = <<>>

\* C28: trigger_shut_down is idempotent: after the first call, with code c,
\* the stored exit code is c whatever the codes of the later calls, and the
\* transport is shut down with code c.
C28_TriggerShutDownIdempotent ==
    /\ server.calls = <<>> => IsNone(server.shutting_down)
    /\ server.calls # <<>> => server.shutting_down = Some(server.calls[1])
    /\ IsSome(server.transport) =>
         /\ server.calls # <<>>
         /\ Unwrap(server.transport).code = server.calls[1]

\* C28 witness: trigger_shut_down was called twice with different codes and
\* the transport was shut down with the first.
C28_Witness ==
    /\ Len(server.calls) >= 2
    /\ server.calls[2] # server.calls[1]
    /\ IsSome(server.transport)
    /\ Unwrap(server.transport).code = server.calls[1]

\* C29: shutdown_complete is set only after shutting_down was set and the
\* transport's shut down, called with the stored exit code and the reason
\* "Shutting down", has finished; run() returns only after shutdown_complete
\* is set, and once it has returned it spawns no further connection task.
C29_ShutdownOrdering ==
    [][/\ IsSome(server'.shutdown_complete) =>
            /\ IsSome(server'.shutting_down)
            /\ server'.transport_done
            /\ server'.transport = Some([code |-> Unwrap(server'.shutting_down),
                                         reason |-> "Shutting down"])
       /\ server'.transport_done => IsSome(server'.transport)
       /\ server'.run = "returned" => IsSome(server'.shutdown_complete)
       /\ server.run = "returned" =>
            /\ server'.run = "returned"
            /\ server'.spawned = server.spawned]_vars

\* C29 witness: run() accepted a client, then shut the transport down with
\* the stored code, set shutdown_complete and returned.
C29_Witness ==
    /\ server.run = "returned"
    /\ server.spawned >= 1
    /\ IsSome(server.shutdown_complete)
    /\ server.transport_done

\* run() is executing or has executed.
RunCalled == server.run # "idle"

\* C30: if trigger_shut_down is called while run() is executing, run()
\* eventually leaves its loop and returns with shutdown_complete set, and
\* every wait_for_shut_down(), pending then or called later, eventually
\* returns; wait_for_shut_down() never returns while shutdown_complete is
\* unset.
C30_ShutdownLiveness ==
    /\ (RunCalled /\ IsSome(server.shutting_down))
          ~> (server.run = "returned" /\ IsSome(server.shutdown_complete))
    /\ \A w \in Waiters :
          (RunCalled /\ IsSome(server.shutting_down) /\ server.waiters[w] = "waiting")
              ~> server.waiters[w] = "returned"
    /\ [](\A w \in Waiters :
             server.waiters[w] = "returned" => IsSome(server.shutdown_complete))

\* C30 witness: after a triggered shutdown run() has returned and a
\* wait_for_shut_down() has returned.
C30_Witness ==
    /\ server.calls # <<>>
    /\ server.run = "returned"
    /\ \E w \in Waiters : server.waiters[w] = "returned"

\* C31: is_shutting_down() returns false in every state before the first
\* trigger_shut_down call and true in every state after it, whatever run()
\* and the waiters have done since; once true it never reverts to false.
C31_IsShuttingDownMonotone ==
    /\ [](IsShuttingDown(server) <=> server.calls # <<>>)
    /\ [][IsShuttingDown(server) => IsShuttingDown(server')]_vars

\* C31 witness: is_shutting_down() is true after a trigger although run()
\* was never started, so that shutdown_complete is still unset.
C31_Witness ==
    /\ IsShuttingDown(server)
    /\ Len(server.calls) >= 2
    /\ server.run = "idle"
    /\ IsNone(server.shutdown_complete)

\* accept() returned an error in this step.
AcceptFailed ==
    /\ Len(server'.accepts) = Len(server.accepts) + 1
    /\ server'.accepts[Len(server'.accepts)] = "error"

\* C32: an error returned by the transport's accept does not end run(): it
\* is printed and run() is back at the select! of its loop with nothing else
\* changed; run() returns only through the shutdown branch; and a shutdown
\* triggered after accept errors is still carried out with the stored code.
C32_AcceptErrorContinues ==
    /\ [][AcceptFailed =>
            server' = [server EXCEPT !.accepts = Append(@, "error"), !.run = "select"]]_vars
    /\ [](server.run = "returned" => IsSome(server.shutdown_complete))
    /\ (AcceptErrors(server) > 0 /\ IsSome(server.shutting_down))
          ~> /\ server.run = "returned"
             /\ server.transport = Some([code |-> server.calls[1],
                                         reason |-> "Shutting down"])

\* C32 witness: the first accept failed, a later client was accepted and its
\* task spawned, and a shutdown triggered after both was carried out.
C32_Witness ==
    /\ Len(server.accepts) >= 2
    /\ server.accepts[1] = "error"
    /\ server.accepts[2] = "spawned"
    /\ server.run = "returned"
    /\ server.transport_done

\* The task of peer q called the handler in this step.
Handled(q) == peers[q].pc = "handle" /\ peers'[q].pc # "handle"

\* C33: connections are independent.  A step of one connection task leaves
\* every other task's ClientData, position and connection status as they
\* were, so that closing one connection closes no other; and whatever the
\* other sessions hold, a Submission handled on a connection whose own
\* session is unhandshaked is answered Invalid and not stored, and
\* handle_get on that session answers Invalid.
C33_ConnectionsIndependent ==
    [][\A q \in Peers :
         /\ peers'[q] # peers[q] => \A o \in Peers \ {q} : peers'[o] = peers[o]
         /\ (Handled(q) /\ ~Handshaked(peers[q].client)
                /\ Unwrap(peers[q].msg).type = "Submission")
              => /\ store' = store
                 /\ peers'[q].reply =
                      Some(NewSubmissionResult(RecordId(Unwrap(peers[q].msg).body), "Invalid"))
                 /\ peers'[q].client = peers[q].client
         /\ (Handled(q) /\ ~Handshaked(peers[q].client)
                /\ Unwrap(peers[q].msg).type = "Get")
              => /\ HandleGet(Unwrap(peers[q].msg), ClientOf(peers, q), store, "ok").result_code
                      = "Invalid"
                 /\ peers'[q].client = peers[q].client]_vars

\* C33 witness: connection 1 completed HELLO and is open; connection 2,
\* which sent no HELLO, had its Submission answered Invalid, the store is
\* empty, and connection 2 is still open after connection 1's handshake.
C33_Witness ==
    /\ Handshaked(peers[1].client)
    /\ peers[1].status = "open"
    /\ ~Handshaked(peers[2].client)
    /\ peers[2].status = "open"
    /\ peers[2].got = {"Invalid"}
    /\ store = << >>

\* C34: put_record of the adapter returns Duplicate only on the engine's
\* duplicate signal, that is when the engine did not fail and the record's
\* Id is present; every other failure of the engine is returned as an error,
\* never as Inserted or Duplicate; a put that did not insert leaves the
\* record set unchanged, and an insertion adds the record and nothing else.
C34_AdapterPutResults ==
    [][(DispatchStep /\ ev'.outcome = "Put") =>
         LET m == ev'.msg
             k == RecordId(m.record).bytes
             present == k \in DOMAIN store
         IN /\ ev'.put = "Duplicate" <=> (m.backend = "ok" /\ present)
            /\ ev'.put = "Inserted" <=> (m.backend = "ok" /\ ~present)
            /\ m.backend \in EngineErrors =>
                  /\ ev'.put = "Err"
                  /\ IsSome(m.err)
                  /\ Unwrap(m.err).inner = "General"
            /\ ev'.put \in {"Duplicate", "Err"} => store' = store
            /\ ev'.put = "Inserted" =>
                  /\ DOMAIN store' = DOMAIN store \cup {k}
                  /\ store'[k] = m.record
                  /\ \A j \in DOMAIN store : store'[j] = store[j]]_vars

\* C34 witness: the engine failed on a put of a record that is already
\* stored; the adapter returned an error and the record is still stored.
C34_Witness ==
    /\ ev.outcome = "Put"
    /\ ev.msg.backend = "Io"
    /\ ev.put = "Err"
    /\ RecordId(ev.msg.record).bytes \in DOMAIN store

\* The session-state invariant of a ClientData.
SessionOk(client) ==
    /\ IsSome(client.mosaic_version) <=> IsSome(client.applications)
    /\ IsSome(client.mosaic_version) =>
          /\ Unwrap(client.mosaic_version) = SUPPORTED_MAJOR_VERSION
          /\ \A i \in 1..Len(Unwrap(client.applications)) :
                Unwrap(client.applications)[i] = 0
    /\ IsSome(client.closing_result) => ~Handshaked(client)

\* C35: in every state of a connection, between messages and right after
\* the handler returned, the negotiated version is set iff the application
\* set is set, a set version is 0 and a set application set holds no id but
\* 0, and closing_result is set only on an unhandshaked session; the version
\* and application set of a Handshaked session are left as they are by every
\* handler call and stay as they are while the connection is open.
C35_SessionInvariant ==
    /\ [](/\ \A c \in Conns : SessionOk(client_data[c])
          /\ SessionOk(ev.before)
          /\ SessionOk(ev.after))
    /\ [][/\ \A c \in Conns :
              (Handshaked(client_data[c]) /\ conn'[c].status = "open")
                 => /\ client_data'[c].mosaic_version = client_data[c].mosaic_version
                    /\ client_data'[c].applications = client_data[c].applications
          /\ (DispatchStep /\ Handshaked(ev'.before))
                 => /\ ev'.after.mosaic_version = ev'.before.mosaic_version
                    /\ ev'.after.applications = ev'.before.applications]_vars

\* C35 witness: a HELLO asking for another application list was handled on
\* a Handshaked session, which holds the version and the list it held.
C35_Witness ==
    /\ ev.msg.type = "Hello"
    /\ ~HelloFails(ev.msg)
    /\ Handshaked(ev.before)
    /\ SelectSeq(Unwrap(ev.msg.apps), IsZeroApp) # Unwrap(ev.before.applications)
    /\ ev.conn \in Conns
    /\ client_data[ev.conn] = ev.before
    /\ conn[ev.conn].status = "open"

\* The record the clients of the connection tasks submit.
PeerRecord == [shape |-> "record", n |-> 1]

\* The tasks whose put_record inserted the record, and the clients that
\* received SubmissionResult(Accepted).
Inserters == {p \in Peers : "Inserted" \in peers[p].puts}
AcceptedBy == {p \in Peers : "Accepted" \in peers[p].got}

\* C36: when connections sharing the store submit the same valid record, in
\* every interleaving of their tasks at most one put_record inserts and at
\* most one client receives Accepted; of two connections that both had the
\* record stored or found present, no other having inserted it, exactly one
\* inserted and the other was told Duplicate, and likewise for the
\* SubmissionResults the two clients received; the store holds the record
\* once.
C36_ConcurrentSubmissions ==
    /\ Cardinality(Inserters) <= 1
    /\ Cardinality(AcceptedBy) <= 1
    /\ AcceptedBy \subseteq Inserters
    /\ Inserters # {} <=> store # << >>
    /\ store # << >> =>
          /\ DOMAIN store = {RecordId(PeerRecord).bytes}
          /\ store[RecordId(PeerRecord).bytes] = PeerRecord
    /\ \A p \in Peers : \A q \in Peers \ {p} :
          /\ (/\ peers[p].puts # {} /\ peers[q].puts # {}
               /\ "Err" \notin peers[p].puts \cup peers[q].puts
               /\ Inserters \subseteq {p, q})
              => \/ p \in Inserters /\ peers[q].puts = {"Duplicate"}
                 \/ q \in Inserters /\ peers[p].puts = {"Duplicate"}
          /\ (/\ peers[p].got # {} /\ peers[q].got # {}
               /\ peers[p].got \cup peers[q].got \subseteq {"Accepted", "Duplicate"}
               /\ Inserters \subseteq {p, q})
              => \/ p \in AcceptedBy /\ peers[q].got = {"Duplicate"}
                 \/ q \in AcceptedBy /\ peers[p].got = {"Duplicate"}

\* C36 witness: two Handshaked connections had the record in flight at the
\* same time: the task of connection 2 inserted it and, before its Accepted
\* was sent, the Submission of connection 1 was handled and answered
\* Duplicate; one copy is stored.
C36_Witness ==
    /\ peers[1].got = {"Duplicate"}
    /\ peers[2].pc = "send"
    /\ peers[2].put = "Inserted"
    /\ Unwrap(peers[2].reply).result = "Accepted"
    /\ DOMAIN store = {RecordId(PeerRecord).bytes}

\* The session with the accepted application set [0] in place of its own.
WithAppZero(client) == [client EXCEPT !.applications = Some(<<0>>)]

\* A handler was called on a session that completed HELLO with an empty
\* accepted application set.
CalledOnEmptySet ==
    /\ ev = NoEvent
    /\ ev' # NoEvent
    /\ Handshaked(ev'.before)
    /\ ev'.before.applications = Some(<<>>)

\* C37: a session that completed HELLO with an empty accepted application
\* set is handshaked for the validator and for handle_get: both return on
\* it what they return on the session with accepted set [0]; a valid
\* Submission that the store takes is stored and answered Accepted (and
\* answered Duplicate when already stored), and a GET with a query id and a
\* reference list is answered Success or NotFound with the records present.
C37_EmptyAppSetHandshaked ==
    [][CalledOnEmptySet =>
         LET m == ev'.msg
             session == ev'.before
         IN /\ \A backend \in BackendOutcomes :
                 /\ m.type = "Get" =>
                       HandleGet(m, session, store, backend)
                         = HandleGet(m, WithAppZero(session), store, backend)
                 /\ m.type = "Submission" =>
                       /\ ValidateSubmission(m, session)
                            = ValidateSubmission(m, WithAppZero(session))
                       /\ HandleSubmission(m, session, store, backend)
                            = [HandleSubmission(m, WithAppZero(session), store, backend)
                                 EXCEPT !.client = session]
            /\ (ev'.outcome = "Get" /\ ev'.get.ok /\ IsSome(m.references)) =>
                 /\ ev'.get.result_code \in {"Success", "NotFound"}
                 /\ LET present == PresentReferences(store, Unwrap(m.references)) IN
                    ev'.get.records = [i \in 1..Len(present) |-> store[present[i].bytes]]
            /\ (ev'.outcome = "Submission" /\ RecordFromBytes(m.body).ok
                   /\ ev'.put # "Err") =>
                 LET k == RecordId(m.body).bytes IN
                 /\ ev'.reply = Some(NewSubmissionResult(RecordId(m.body),
                                      IF k \in DOMAIN store THEN "Duplicate"
                                                            ELSE "Accepted"))
                 /\ k \in DOMAIN store'
                 /\ store'[k] = m.body
                 /\ ev'.after = session]_vars

\* C37 witness: on a session with the empty accepted set a record absent
\* from the store was submitted, stored and answered Accepted.
C37_Witness ==
    /\ ev.outcome = "Submission"
    /\ ev.before.applications = Some(<<>>)
    /\ Handshaked(ev.before)
    /\ ev.put = "Inserted"
    /\ Unwrap(ev.reply).result = "Accepted"
    /\ RecordId(ev.msg.body).bytes \in DOMAIN store

\* C38: a backend error of get_record during a GET is not turned into a
\* result code: whichever lookup fails, handle_get returns the error, with
\* no query id, no result code and none of the records collected before it;
\* a backend error of put_record during a Submission is answered with
\* SubmissionResult(GeneralError), stages no closing code and leaves the
\* session and the store as they were.
C38_GetBackendErrorIsHard ==
    [][(ev = NoEvent /\ ev' # NoEvent) =>
         LET m == ev'.msg IN
         /\ (ev'.outcome = "Get" /\ IsSome(m.query_id) /\ Handshaked(ev'.before)
                /\ IsSome(m.references)) =>
              /\ \A backend \in GetBackendOutcomes \ {"ok"} :
                    FailingLookup(backend) \in 1..Len(Unwrap(m.references)) =>
                      HandleGet(m, ev'.before, store, backend)
                        = GetError("Io", FailingLookup(backend))
              /\ ev'.get.err = "Io" =>
                    /\ ~ev'.get.ok
                    /\ ev'.get.records = <<>>
                    /\ ev'.get.result_code = "none"
                    /\ IsNone(ev'.get.query_id)
                    /\ ev'.get.lookups \in 1..Len(Unwrap(m.references))
         /\ (ev'.outcome = "Submission" /\ ev'.put = "Err") =>
              /\ ev'.reply = Some(NewSubmissionResult(RecordId(m.body), "GeneralError"))
              /\ ev'.after = ev'.before
              /\ IsNone(ev'.after.closing_result)
              /\ store' = store]_vars

\* C38 witness: the second get_record call of a GET failed after the first
\* had found a stored record; handle_get returned the error and no record.
C38_Witness ==
    /\ ev.outcome = "Get"
    /\ ev.get.err = "Io"
    /\ ev.get.lookups = 2
    /\ Unwrap(ev.msg.references)[1].bytes \in DOMAIN store
    /\ ev.get.records = <<>>

\* C39: a run() invoked after trigger_shut_down, the trigger made before
\* the first invocation or between two, still takes the shutdown branch:
\* unless it is dropped it shuts the transport down with the stored code,
\* sets shutdown_complete and returns; shutdown_complete is set only by a
\* run() that executed after the trigger and returned, so that while no
\* run() has done so it is unset and no wait_for_shut_down() has returned.
C39_TriggerBeforeRun ==
    /\ (IsSome(server.shutting_down) /\ RunCalled)
          ~> \/ /\ server.run = "returned"
                /\ IsSome(server.shutdown_complete)
                /\ server.transport = Some([code |-> server.calls[1],
                                            reason |-> "Shutting down"])
                /\ server.transport_done
             \/ server.run = "idle"
    /\ [](server.run # "returned" =>
             /\ IsNone(server.shutdown_complete)
             /\ \A w \in Waiters : server.waiters[w] # "returned")
    /\ [][(IsNone(server.shutdown_complete) /\ IsSome(server'.shutdown_complete))
            => /\ IsSome(server.shutting_down)
               /\ server.run = "complete"
               /\ server'.run = "returned"]_vars

\* C39 witness: trigger_shut_down was called between two invocations of
\* run(): the first was dropped with no shutdown requested; the second,
\* started after the trigger, shut the transport down with the stored code
\* and returned, and a wait_for_shut_down() returned.
C39_Witness ==
    /\ Len(server.starts) = 2
    /\ server.starts[1] = 0
    /\ server.starts[2] >= 1
    /\ server.run = "returned"
    /\ server.transport = Some([code |-> server.calls[1], reason |-> "Shutting down"])
    /\ \E w \in Waiters : server.waiters[w] = "returned"

\* C40: the store's record set only grows, and only through Submission
\* handling: a step changes the store only when a Submission was handled and
\* put_record returned Inserted, and then adds exactly the submitted record;
\* HELLO, GET, unknown and reserved messages and Submissions that were
\* rejected, found present or failed in the backend leave it unchanged; no
\* step removes or rewrites a stored record, so that a record returned by
\* get_record is returned with the same bytes in every later state.
C40_StoreOnlyGrows ==
    [][/\ \A k \in DOMAIN store : k \in DOMAIN store' /\ store'[k] = store[k]
       /\ \A reference \in References :
            IsSome(GetRecord(store, reference))
               => GetRecord(store', reference) = GetRecord(store, reference)
       /\ store' # store =>
            /\ DispatchStep
            /\ ev'.msg.type = "Submission"
            /\ ev'.put = "Inserted"
            /\ Handshaked(ev'.before)
            /\ RecordFromBytes(ev'.msg.body).ok
            /\ DOMAIN store' = DOMAIN store \cup {RecordId(ev'.msg.body).bytes}
            /\ store'[RecordId(ev'.msg.body).bytes] = ev'.msg.body
       /\ (DispatchStep /\ (ev'.msg.type # "Submission" \/ ev'.put # "Inserted"))
            => store' = store]_vars

\* C40 witness: with a record stored, a Submission of the same record on a
\* Handshaked session was answered Duplicate and the record is still stored
\* with its bytes.
C40_Witness ==
    /\ ev.msg.type = "Submission"
    /\ ev.put = "Duplicate"
    /\ RecordId(ev.msg.body).bytes \in DOMAIN store
    /\ store[RecordId(ev.msg.body).bytes] = ev.msg.body
    /\ GetRecord(store, ToReference(RecordId(ev.msg.body))) = Some(ev.msg.body)

====
